---------------------------- MODULE Spec2Model ----------------------------
(***************************************************************************)
(* A model of the learning engine of the autonomous-snake repository:      *)
(* the experience replay buffer (internal/ai/replay.go), the value         *)
(* network (internal/ai/network.go) and the DQN agent (internal/ai/        *)
(* agent.go).                                                              *)
(*                                                                         *)
(* Go slices are modelled by a heap of []float64 backing arrays: a slice   *)
(* is the address of its array, so that two slices sharing storage are the *)
(* same address and a copy is a new address with the same contents.        *)
(* float64 values are modelled by integers (fixed point where a fraction   *)
(* matters), each place saying which.                                      *)
(***************************************************************************)
EXTENDS Integers, Sequences, FiniteSets, TLC

VARIABLES
    heap,       \* the []float64 backing arrays, by address
    rb,         \* the ReplayBuffer struct: buffer, capacity, position, size
    batch,      \* the slice ReplayBuffer.Sample last returned
    indices,    \* the slot indices that Sample drew (rng.Perm(size)[:n])
    added,      \* the transitions passed to Add since construction or Clear
    agent,      \* the DQNAgent struct, but for its three pointers
    policyNet,  \* the QNetwork agent.PolicyNet points to
    targetNet,  \* the QNetwork agent.TargetNet points to
    decays,     \* DecayEpsilon calls since NewDQNAgent; -1 once epsilon was set
    last,       \* what the last Train or Backward started from and returned
    lastOp,     \* the operation that made the last step, and its argument
    disk,       \* the file at the path Save writes and LoadNetwork reads
    caller,     \* the Experience a caller of Add still holds, its slices its own
    game,       \* the Game: its GameState, and the result of its last Step
    snake,      \* a Snake moved on its own
    twin,       \* a second DQNAgent, made and driven as the first
    trains,     \* Train calls made on the agent since NewDQNAgent
    renderer    \* the GameRenderer, but for its pointers and its layout

bufferVars == <<heap, rb, batch, indices, added>>
netVars == <<policyNet, targetNet, last>>
agentVars == <<agent, policyNet, targetNet, decays, last>>
envVars == <<disk, caller, game, snake, twin, trains, renderer>>
vars == <<heap, rb, batch, indices, added, agent, policyNet, targetNet, decays,
          last, lastOp, disk, caller, game, snake, twin, trains, renderer>>

-----------------------------------------------------------------------------
(* Bounds of the model.                                                    *)

\* Addresses of the heap.
HeapSize == 20
\* The largest capacity a buffer is constructed with.
MaxCapacity == 3
\* The number of Add calls followed between two Clear calls.
MaxAdds == 4
\* The largest batch size asked of Sample.
MaxSample == 4
\* The number of DecayEpsilon calls followed from NewDQNAgent.
MaxDecays == 925
\* The number of Remember calls followed from NewDQNAgent.
MaxRemember == 2
\* The largest StepCount a Train call is followed from.
MaxSteps == 8
\* The longest vector of Q-values MaxIndex is applied to.
MaxVector == 3
\* The largest Q-value (in absolute value) of such a vector.
MaxQ == 2
\* The number of values drawn from the agent's rng that are followed.
MaxDraws == 2
\* The number of Backward passes followed on a pair of networks.
MaxBackward == 2
\* The largest weight, bias or returned loss (in absolute value) a Train call
\* is followed to.
MaxWeight == 40
\* Saves of a loaded network a driver makes in a row.
MaxRounds == 3
\* The widest layer a driver asks NewQNetwork for.
MaxDim == 2
\* The Move calls followed on a snake moved on its own.
MaxMoves == 3
\* The turns a game is followed for after Reset.
MaxTurns == 2
\* The DecayEpsilon calls followed on a pair of agents.
MaxEpisodes == 1
\* The writes a caller makes to the batches Sample returned.
MaxWrites == 2
\* The games the renderer counts.
MaxGames == 2

-----------------------------------------------------------------------------
(* The heap.                                                               *)

\* A nil slice (the zero value of []float64).
Nil == 0

Addr == 1..HeapSize

\* The contents of the slice at address a; a nil slice has no elements.
Deref(h, a) == IF a = Nil THEN <<>> ELSE h[a]

\* make([]float64, n): the lowest address not in use.
NewAddr(used) == CHOOSE a \in Addr \ used : \A b \in Addr \ used : a <= b

\* The garbage collector: an array no slice refers to is gone.
Collect(h, roots) == [a \in Addr |-> IF a \in roots THEN h[a] ELSE <<>>]

-----------------------------------------------------------------------------
(* Experience and ReplayBuffer (internal/ai/replay.go).                    *)

\* The zero value of Experience, which make([]Experience, capacity) fills in.
ZeroExperience ==
    [State |-> Nil, Action |-> 0, Reward |-> 0, NextState |-> Nil, Done |-> FALSE]

\* The transitions a driver stores: state and next state by value, rewards in
\* integer units; T[3] is terminal with reward -1.
Transitions ==
    { [State |-> <<1>>, Action |-> 0, Reward |-> 1,  NextState |-> <<0>>, Done |-> FALSE],
      [State |-> <<0>>, Action |-> 1, Reward |-> 0,  NextState |-> <<1>>, Done |-> FALSE],
      [State |-> <<1>>, Action |-> 2, Reward |-> -1, NextState |-> <<1>>, Done |-> TRUE] }

\* An Experience of the heap read by value.
ExpValue(h, e) ==
    [State |-> Deref(h, e.State), Action |-> e.Action, Reward |-> e.Reward,
     NextState |-> Deref(h, e.NextState), Done |-> e.Done]

\* The addresses the slices of an Experience refer to.
ExpAddrs(e) == {e.State, e.NextState} \ {Nil}

\* The addresses a buffer holds, in written, stale and valid slots alike.
BufferAddrs(rbv) == UNION {ExpAddrs(rbv.buffer[i]) : i \in DOMAIN rbv.buffer}

\* The addresses a returned batch holds.
BatchAddrs(b) == UNION {ExpAddrs(b[i]) : i \in DOMAIN b}

NewReplayBuffer(cap) ==
    [buffer   |-> [i \in 0..(cap - 1) |-> ZeroExperience],
     capacity |-> cap,
     position |-> 0,
     size     |-> 0]

\* Add as it would be without the test that stops size at capacity.
AddSizeUnguarded(h, rbv, exp, used) ==
    LET stateCopy     == NewAddr(used)
        nextStateCopy == NewAddr(used \cup {stateCopy})
        h2 == [h EXCEPT ![stateCopy] = Deref(h, exp.State),
                        ![nextStateCopy] = Deref(h, exp.NextState)]
        stored == [State |-> stateCopy, Action |-> exp.Action, Reward |-> exp.Reward,
                   NextState |-> nextStateCopy, Done |-> exp.Done]
    IN  [heap |-> h2,
         rb   |-> [rbv EXCEPT !.buffer[rbv.position] = stored,
                              !.position = (rbv.position + 1) % rbv.capacity,
                              !.size = rbv.size + 1]]

\* Add as it would be if it stored the caller's slices instead of copies.
AddAliasing(h, rbv, exp, used) ==
    [heap |-> h,
     rb   |-> [rbv EXCEPT !.buffer[rbv.position] = exp,
                          !.position = (rbv.position + 1) % rbv.capacity,
                          !.size = IF rbv.size < rbv.capacity
                                   THEN rbv.size + 1 ELSE rbv.size]]

\* Add, given the heap, the caller's Experience exp (slices by address) and the
\* addresses in use: the new heap and the new buffer.
Add(h, rbv, exp, used) ==
    LET stateCopy     == NewAddr(used)
        nextStateCopy == NewAddr(used \cup {stateCopy})
        h2 == [h EXCEPT ![stateCopy] = Deref(h, exp.State),
                        ![nextStateCopy] = Deref(h, exp.NextState)]
        stored == [State |-> stateCopy, Action |-> exp.Action, Reward |-> exp.Reward,
                   NextState |-> nextStateCopy, Done |-> exp.Done]
    IN  [heap |-> h2,
         rb   |-> [rbv EXCEPT !.buffer[rbv.position] = stored,
                              !.position = (rbv.position + 1) % rbv.capacity,
                              !.size = IF rbv.size < rbv.capacity
                                       THEN rbv.size + 1 ELSE rbv.size]]

\* Indices drawn with replacement, as n calls of rng.Intn(n) would draw them.
PermWithRepeats(n) == [1..n -> 0..(n - 1)]

\* rng.Perm(n): any permutation of 0..n-1, as a sequence.
Perm(n) ==
    {p \in [1..n -> 0..(n - 1)] : \A i, j \in 1..n : p[i] = p[j] => i = j}

\* The batch size Sample settles on.
SampleSize(rbv, batchSize) == IF batchSize > rbv.size THEN rbv.size ELSE batchSize

\* The indices Sample reads, given the permutation the rng returned.
SampleIndices(rbv, batchSize, perm) == SubSeq(perm, 1, SampleSize(rbv, batchSize))

\* Sample, given the permutation the rng returned: the Experience structs of
\* the drawn slots (their slices are those of the buffer).
Sample(rbv, batchSize, perm) ==
    LET idx == SampleIndices(rbv, batchSize, perm)
    IN  [i \in 1..Len(idx) |-> rbv.buffer[idx[i]]]

Size(rbv) == rbv.size

IsFull(rbv) == rbv.size = rbv.capacity

\* Clear as it would be if it reset the cursor alone.
ClearCursorOnly(rbv) == [rbv EXCEPT !.position = 0]

Clear(rbv) == [rbv EXCEPT !.position = 0, !.size = 0]

-----------------------------------------------------------------------------
(* QNetwork (internal/ai/network.go).                                      *)
(*                                                                         *)
(* A QNetwork is a record: a weight matrix [][]float64 is the sequence of  *)
(* the addresses of its rows (the outer slice is written once, when the    *)
(* matrix is made, and never after), a bias vector is an address.  Weights *)
(* and activations, float64 in the code, are integers, so that sums and    *)
(* products are exact.                                                     *)

\* The elements of sequence s.
Range(s) == {s[i] : i \in DOMAIN s}

\* The sum of f[1..n].
RECURSIVE SumTo(_, _)
SumTo(f, n) == IF n = 0 THEN 0 ELSE f[n] + SumTo(f, n - 1)

\* n fresh arrays: the n lowest addresses not in use.
RECURSIVE NewAddrs(_, _)
NewAddrs(used, n) ==
    IF n = 0 THEN <<>>
    ELSE LET a == NewAddr(used) IN <<a>> \o NewAddrs(used \cup {a}, n - 1)

\* Statements in sequence: the value e of the first, computed once as the code
\* computes it, handed to the rest.
Then(e, Rest(_)) == CHOOSE r \in {Rest(x) : x \in {e}} : TRUE

\* The array with the elements f[1], ..., f[n], in full.
RECURSIVE Floats(_, _)
Floats(f, n) == IF n = 0 THEN <<>> ELSE Append(Floats(f, n - 1), f[n])

\* make([]float64, n): n zeros.
Zeros(n) == Floats([j \in 1..n |-> 0], n)

\* A matrix read by value: the contents of its rows.
Matrix(h, rows) == Floats([i \in 1..Len(rows) |-> h[rows[i]]], Len(rows))

\* The nil *QNetwork.
NoNet == [W1 |-> <<>>, B1 |-> Nil, W2 |-> <<>>, B2 |-> Nil, W3 |-> <<>>, B3 |-> Nil]

\* The addresses a network's slices refer to.
NetAddrs(n) ==
    (Range(n.W1) \cup Range(n.W2) \cup Range(n.W3) \cup {n.B1, n.B2, n.B3}) \ {Nil}

\* A network read by value.
NetValue(h, n) ==
    [W1 |-> Matrix(h, n.W1), B1 |-> Deref(h, n.B1),
     W2 |-> Matrix(h, n.W2), B2 |-> Deref(h, n.B2),
     W3 |-> Matrix(h, n.W3), B3 |-> Deref(h, n.B3),
     InputSize |-> n.InputSize, HiddenSize1 |-> n.HiddenSize1,
     HiddenSize2 |-> n.HiddenSize2, OutputSize |-> n.OutputSize,
     LearningRate |-> n.LearningRate]

\* h with the arrays at addresses rows set to the rows of the matrix m.
RECURSIVE StoreRows(_, _, _, _)
StoreRows(h, rows, m, i) ==
    IF i > Len(rows) THEN h
    ELSE StoreRows([h EXCEPT ![rows[i]] = m[i]], rows, m, i + 1)

\* NewQNetwork, the rng drawing the weights init.W1, init.W2, init.W3
\* (xavierInit: fanIn rows of fanOut values each): the new heap and network.
NewQNetwork(h, used, inputSize, hiddenSize1, hiddenSize2, outputSize, lr, init) ==
    LET w1 == NewAddrs(used, inputSize)
        u1 == used \cup Range(w1)
        b1 == NewAddr(u1)
        u2 == u1 \cup {b1}
        w2 == NewAddrs(u2, hiddenSize1)
        u3 == u2 \cup Range(w2)
        b2 == NewAddr(u3)
        u4 == u3 \cup {b2}
        w3 == NewAddrs(u4, hiddenSize2)
        u5 == u4 \cup Range(w3)
        b3 == NewAddr(u5)
        hw1 == StoreRows(h, w1, init.W1, 1)
        hw2 == StoreRows(hw1, w2, init.W2, 1)
        hw3 == StoreRows(hw2, w3, init.W3, 1)
    IN  [heap |-> [hw3 EXCEPT ![b1] = Zeros(hiddenSize1),
                              ![b2] = Zeros(hiddenSize2),
                              ![b3] = Zeros(outputSize)],
         net  |-> [W1 |-> w1, B1 |-> b1, W2 |-> w2, B2 |-> b2, W3 |-> w3, B3 |-> b3,
                   InputSize |-> inputSize, HiddenSize1 |-> hiddenSize1,
                   HiddenSize2 |-> hiddenSize2, OutputSize |-> outputSize,
                   LearningRate |-> lr]]

\* linearForward: y = xW + b, for a matrix and a bias given by value.
linearForward(input, weights, bias) ==
    Then(input, LAMBDA x : Then(weights, LAMBDA w : Then(bias, LAMBDA b :
        Floats([j \in 1..Len(b) |->
                   b[j] + SumTo([i \in 1..Len(x) |-> x[i] * w[i][j]], Len(x))],
               Len(b)))))

relu(x) == Floats([i \in 1..Len(x) |-> IF x[i] > 0 THEN x[i] ELSE 0], Len(x))

\* reluDerivative as it would be if it let the gradient through at zero.
reluDerivativeAtZero(z) == Floats([i \in 1..Len(z) |-> IF z[i] >= 0 THEN 1 ELSE 0], Len(z))

reluDerivative(z) == Floats([i \in 1..Len(z) |-> IF z[i] > 0 THEN 1 ELSE 0], Len(z))

elementMul(a, b) == Floats([i \in 1..Len(a) |-> a[i] * b[i]], Len(a))

\* ForwardWithCache: the output and the cache of the activations.
ForwardWithCache(h, n, input) ==
    Then(linearForward(input, Matrix(h, n.W1), h[n.B1]), LAMBDA z1 :
    Then(relu(z1), LAMBDA h1 :
    Then(linearForward(h1, Matrix(h, n.W2), h[n.B2]), LAMBDA z2 :
    Then(relu(z2), LAMBDA h2 :
        [output |-> linearForward(h2, Matrix(h, n.W3), h[n.B3]),
         cache  |-> [input |-> input, z1 |-> z1, h1 |-> h1, z2 |-> z2, h2 |-> h2]]))))

Forward(h, n, input) ==
    Then(relu(linearForward(input, Matrix(h, n.W1), h[n.B1])), LAMBDA h1 :
    Then(relu(linearForward(h1, Matrix(h, n.W2), h[n.B2])), LAMBDA h2 :
        linearForward(h2, Matrix(h, n.W3), h[n.B3])))

\* linearForward panics (index out of range) when it reads weights[i][j] for
\* a row i or a column j the matrix does not have: i ranges over the input,
\* j over the bias, and no element is read when either is empty.
linearForwardPanics(input, weights, bias) ==
    /\ Len(bias) > 0
    /\ \E i \in 1..Len(input) : i > Len(weights) \/ Len(weights[i]) < Len(bias)

\* Forward or ForwardWithCache panics in one of its three linearForward calls.
ForwardPanics(h, n, input) ==
    \/ linearForwardPanics(input, Matrix(h, n.W1), h[n.B1])
    \/ Then(relu(linearForward(input, Matrix(h, n.W1), h[n.B1])), LAMBDA h1 :
          \/ linearForwardPanics(h1, Matrix(h, n.W2), h[n.B2])
          \/ Then(relu(linearForward(h1, Matrix(h, n.W2), h[n.B2])), LAMBDA h2 :
                linearForwardPanics(h2, Matrix(h, n.W3), h[n.B3])))

\* A call of Forward: a panic, or the output returned.
ForwardCall(h, n, input) ==
    IF ForwardPanics(h, n, input)
    THEN [panic |-> TRUE, output |-> <<>>]
    ELSE [panic |-> FALSE, output |-> Forward(h, n, input)]

\* A call of ForwardWithCache: a panic, or the output returned.
ForwardWithCacheCall(h, n, input) ==
    IF ForwardPanics(h, n, input)
    THEN [panic |-> TRUE, output |-> <<>>]
    ELSE [panic |-> FALSE, output |-> ForwardWithCache(h, n, input).output]

\* The update loop of linearBackward over the rows from i on:
\* weights[i][j] -= lr * input[i] * dOutput[j].
RECURSIVE UpdateRows(_, _, _, _, _, _)
UpdateRows(h, weights, input, dOutput, lr, i) ==
    IF i > Len(input) THEN h
    ELSE Then(h, LAMBDA hv : Then(hv[weights[i]], LAMBDA row :
            UpdateRows([hv EXCEPT ![weights[i]] =
                           Floats([j \in 1..Len(row) |->
                                      IF j <= Len(dOutput)
                                      THEN row[j] - lr * input[i] * dOutput[j]
                                      ELSE row[j]],
                                  Len(row))],
                       weights, input, dOutput, lr, i + 1)))

\* linearBackward with update = true: the gradient with respect to the input,
\* computed from the weights before the update, and the heap after it.
linearBackward(h, lr, input, weights, bias, dOutput) ==
    Then(Floats([i \in 1..Len(input) |->
                    SumTo([j \in 1..Len(dOutput) |-> h[weights[i]][j] * dOutput[j]],
                          Len(dOutput))],
                Len(input)), LAMBDA dInput :
    Then(UpdateRows(h, weights, input, dOutput, lr, 1), LAMBDA hw :
    Then(hw[bias], LAMBDA b :
        [dInput |-> dInput,
         heap   |-> [hw EXCEPT ![bias] =
                        Floats([j \in 1..Len(b) |->
                                   IF j <= Len(dOutput) THEN b[j] - lr * dOutput[j] ELSE b[j]],
                               Len(b))]])))

\* Backward as it would be if every output unit were given its error.
BackwardAllUnits(h, n, cache, output, targetAction, targetQ) ==
    Then(Floats([j \in 1..n.OutputSize |-> output[j] - targetQ],
                n.OutputSize), LAMBDA dOutput :
    Then(linearBackward(h, n.LearningRate, cache.h2, n.W3, n.B3, dOutput), LAMBDA l3 :
    Then(elementMul(l3.dInput, reluDerivative(cache.z2)), LAMBDA dZ2 :
    Then(linearBackward(l3.heap, n.LearningRate, cache.h1, n.W2, n.B2, dZ2), LAMBDA l2 :
    Then(elementMul(l2.dInput, reluDerivative(cache.z1)), LAMBDA dZ1 :
    Then(linearBackward(l2.heap, n.LearningRate, cache.input, n.W1, n.B1, dZ1), LAMBDA l1 :
        l1.heap))))))

\* Backward: the heap after the three layers are updated.  targetAction counts
\* from 0, as in the code.
Backward(h, n, cache, output, targetAction, targetQ) ==
    Then(Floats([j \in 1..n.OutputSize |->
                    IF j = targetAction + 1 THEN output[j] - targetQ ELSE 0],
                n.OutputSize), LAMBDA dOutput :
    Then(linearBackward(h, n.LearningRate, cache.h2, n.W3, n.B3, dOutput), LAMBDA l3 :
    Then(elementMul(l3.dInput, reluDerivative(cache.z2)), LAMBDA dZ2 :
    Then(linearBackward(l3.heap, n.LearningRate, cache.h1, n.W2, n.B2, dZ2), LAMBDA l2 :
    Then(elementMul(l2.dInput, reluDerivative(cache.z1)), LAMBDA dZ1 :
    Then(linearBackward(l2.heap, n.LearningRate, cache.input, n.W1, n.B1, dZ1), LAMBDA l1 :
        l1.heap))))))

\* copy(dst, src): the first min(len(dst), len(src)) elements of src over dst.
CopySlice(h, dst, src) ==
    Then(h, LAMBDA hv : Then(hv[dst], LAMBDA d : Then(hv[src], LAMBDA r :
        [hv EXCEPT ![dst] = Floats([j \in 1..Len(d) |->
                                       IF j <= Len(r) THEN r[j] ELSE d[j]],
                                   Len(d))])))

\* copyMatrix: copy(dst[i], src[i]) for the rows i of src, from row i on.
RECURSIVE copyMatrix(_, _, _, _)
copyMatrix(h, dst, src, i) ==
    IF i > Len(src) THEN h
    ELSE copyMatrix(CopySlice(h, dst[i], src[i]), dst, src, i + 1)

\* n.CopyFrom(other): the heap after the copy.
CopyFrom(h, n, other) ==
    LET h1 == CopySlice(copyMatrix(h, n.W1, other.W1, 1), n.B1, other.B1)
        h2 == CopySlice(copyMatrix(h1, n.W2, other.W2, 1), n.B2, other.B2)
    IN  CopySlice(copyMatrix(h2, n.W3, other.W3, 1), n.B3, other.B3)

\* The weights NewQNetwork draws with seed 0, whatever they are: Clone
\* overwrites them.
SeedZeroWeights(n) ==
    [W1 |-> [i \in 1..n.InputSize |-> Zeros(n.HiddenSize1)],
     W2 |-> [i \in 1..n.HiddenSize1 |-> Zeros(n.HiddenSize2)],
     W3 |-> [i \in 1..n.HiddenSize2 |-> Zeros(n.OutputSize)]]

\* Clone as it would be if it returned the network itself.
CloneShared(h, used, n) == [heap |-> h, net |-> n]

\* Clone as it would be without the call of CopyFrom.
CloneNoCopy(h, used, n) ==
    NewQNetwork(h, used, n.InputSize, n.HiddenSize1, n.HiddenSize2,
                n.OutputSize, n.LearningRate, SeedZeroWeights(n))

\* n.Clone(): the new heap and the clone.
Clone(h, used, n) ==
    Then(NewQNetwork(h, used, n.InputSize, n.HiddenSize1, n.HiddenSize2,
                     n.OutputSize, n.LearningRate, SeedZeroWeights(n)), LAMBDA c :
        [heap |-> CopyFrom(c.heap, c.net, n), net |-> c.net])

\* MaxIndex, counting from 0 as the code does: the scan from index i on, the
\* best so far at maxIdx.
RECURSIVE MaxIndexFrom(_, _, _)
MaxIndexFrom(values, i, maxIdx) ==
    IF i > Len(values) THEN maxIdx - 1
    ELSE MaxIndexFrom(values, i + 1, IF values[i] > values[maxIdx] THEN i ELSE maxIdx)

\* MaxIndex as it would be if a later value equal to the best replaced it.
RECURSIVE MaxIndexLastFrom(_, _, _)
MaxIndexLastFrom(values, i, maxIdx) ==
    IF i > Len(values) THEN maxIdx - 1
    ELSE MaxIndexLastFrom(values, i + 1,
                          IF values[i] >= values[maxIdx] THEN i ELSE maxIdx)

MaxIndexLast(values) == MaxIndexLastFrom(values, 2, 1)

MaxIndex(values) == MaxIndexFrom(values, 2, 1)

\* Max: the scan from index i on, the best so far maxVal.
RECURSIVE MaxFrom(_, _, _)
MaxFrom(values, i, maxVal) ==
    IF i > Len(values) THEN maxVal
    ELSE MaxFrom(values, i + 1, IF values[i] > maxVal THEN values[i] ELSE maxVal)

Max(values) == MaxFrom(values, 2, values[1])

-----------------------------------------------------------------------------
(* Hyperparameters (internal/config/config.go) and the exploration rate of *)
(* the DQNAgent (internal/ai/agent.go).                                    *)
(*                                                                         *)
(* Epsilon, a float64, is a fixed-point number in units of 10^-9; the      *)
(* decay factor is the fraction EpsilonDecayNum / EpsilonDecayDen.         *)

EpsUnit == 10^9

\* The fixed-point number num/den, for a den that divides EpsUnit.
Fixed(num, den) == num * (EpsUnit \div den)

EpsilonStart == Fixed(1, 1)
EpsilonMin == Fixed(1, 100)
EpsilonDecayNum == 995
EpsilonDecayDen == 1000
GammaNum == 99
GammaDen == 100
TrainInterval == 4
NumActions == 3

\* x * (num/den) rounded down, without leaving 32 bits on the way.
MulFrac(x, num, den) == (x \div den) * num + ((x % den) * num) \div den

\* The configurations the agent is constructed with: DefaultTrainingConfig with
\* layers, batch and buffer of the model's size, a learning rate of 1 and the
\* target update interval given.
TrainingConfig(targetUpdate) ==
    [InputSize |-> 1, HiddenSize1 |-> 1, HiddenSize2 |-> 1, OutputSize |-> 3,
     LearningRate |-> 1,
     Gamma |-> [num |-> GammaNum, den |-> GammaDen],
     EpsilonStart |-> EpsilonStart,
     EpsilonMin |-> EpsilonMin,
     EpsilonDecay |-> [num |-> EpsilonDecayNum, den |-> EpsilonDecayDen],
     BatchSize |-> 2, BufferSize |-> 3, TargetUpdate |-> targetUpdate]

\* NewDQNAgent on an empty heap, the rng drawing the weights init: the heap,
\* the two networks, the buffer and the other fields of the agent.
NewDQNAgent(cfg, init) ==
    Then(NewQNetwork([a \in Addr |-> <<>>], {}, cfg.InputSize, cfg.HiddenSize1,
                     cfg.HiddenSize2, cfg.OutputSize, cfg.LearningRate, init), LAMBDA p :
    Then(Clone(p.heap, NetAddrs(p.net), p.net), LAMBDA t :
        [heap         |-> t.heap,
         PolicyNet    |-> p.net,
         TargetNet    |-> t.net,
         ReplayBuffer |-> NewReplayBuffer(cfg.BufferSize),
         fields       |-> [Gamma         |-> cfg.Gamma,
                           Epsilon       |-> cfg.EpsilonStart,
                           EpsilonMin    |-> cfg.EpsilonMin,
                           EpsilonDecay  |-> cfg.EpsilonDecay,
                           BatchSize     |-> cfg.BatchSize,
                           StepCount     |-> 0,
                           TargetUpdate  |-> cfg.TargetUpdate,
                           TrainInterval |-> TrainInterval,
                           rng           |-> 0]]))

\* DecayEpsilon as it would be if it divided by the decay factor.
DecayEpsilonDividing(a) ==
    LET e == MulFrac(a.Epsilon, a.EpsilonDecay.den, a.EpsilonDecay.num)
    IN  [a EXCEPT !.Epsilon = IF e < a.EpsilonMin THEN a.EpsilonMin ELSE e]

\* DecayEpsilon as it would be without the floor at EpsilonMin.
DecayEpsilonNoFloor(a) ==
    [a EXCEPT !.Epsilon = MulFrac(a.Epsilon, a.EpsilonDecay.num, a.EpsilonDecay.den)]

DecayEpsilon(a) ==
    LET e == MulFrac(a.Epsilon, a.EpsilonDecay.num, a.EpsilonDecay.den)
    IN  [a EXCEPT !.Epsilon = IF e < a.EpsilonMin THEN a.EpsilonMin ELSE e]

SetEpsilon(a, eps) == [a EXCEPT !.Epsilon = eps]

GetState(a) == [Epsilon |-> a.Epsilon, StepCount |-> a.StepCount]

SetState(a, state) ==
    [a EXCEPT !.Epsilon = state.Epsilon, !.StepCount = state.StepCount]

\* SelectActionGreedy as it would be if it explored at the initial epsilon.
SelectActionGreedyExploring(h, a, policy, state) ==
    [action |-> IF a.Epsilon >= EpsilonStart THEN 0
                ELSE MaxIndex(Forward(h, policy, state)),
     agent  |-> a]

\* SelectActionGreedy: the action returned and the agent's fields after it.
SelectActionGreedy(h, a, policy, state) ==
    [action |-> MaxIndex(Forward(h, policy, state)), agent |-> a]

\* SelectAction as it would be if it explored on a draw equal to epsilon.
SelectActionInclusive(h, a, policy, state, u, k) ==
    IF u <= a.Epsilon
    THEN [action |-> k, agent |-> [a EXCEPT !.rng = a.rng + 2]]
    ELSE [action |-> MaxIndex(Forward(h, policy, state)),
          agent  |-> [a EXCEPT !.rng = a.rng + 1]]

\* SelectAction, a.rng.Float64() returning u (in units of 10^-9, below 1) and
\* a.rng.Intn(NumActions), if called, k: the action returned and the agent's
\* fields after it, rng counting the values drawn from a.rng.
SelectAction(h, a, policy, state, u, k) ==
    IF u < a.Epsilon
    THEN [action |-> k, agent |-> [a EXCEPT !.rng = a.rng + 2]]
    ELSE [action |-> MaxIndex(Forward(h, policy, state)),
          agent  |-> [a EXCEPT !.rng = a.rng + 1]]

-----------------------------------------------------------------------------
(* Training (internal/ai/agent.go).                                        *)
(*                                                                         *)
(* Rewards and Q-values are integers; gamma * maxNextQ is the product with *)
(* the fraction GammaNum / GammaDen rounded down.  The loss, which the     *)
(* code halves and averages, is a fraction num/den.                        *)

\* The float64 literals 0.5 and 0.0.
Half == [num |-> 1, den |-> 2]
RatZero == [num |-> 0, den |-> 1]

\* The integer x times the fraction r.
RatTimes(x, r) == [num |-> x * r.num, den |-> r.den]

\* The sum of two fractions.
RatPlus(a, b) ==
    IF a.den = b.den THEN [num |-> a.num + b.num, den |-> a.den]
    ELSE [num |-> a.num * b.den + b.num * a.den, den |-> a.den * b.den]

\* The fraction a divided by the integer n.
RatOver(a, n) == [num |-> a.num, den |-> a.den * n]

\* trainOnExperience as it would be if it bootstrapped from the policy network.
trainOnExperiencePolicyBootstrap(h, a, policy, target, exp) ==
    Then(IF exp.Done THEN exp.Reward
         ELSE exp.Reward
              + MulFrac(Max(Forward(h, policy, Deref(h, exp.NextState))),
                        a.Gamma.num, a.Gamma.den), LAMBDA targetQ :
    Then(ForwardWithCache(h, policy, Deref(h, exp.State)), LAMBDA fwd :
    Then(fwd.output[exp.Action + 1], LAMBDA currentQ :
        [heap     |-> Backward(h, policy, fwd.cache, fwd.output, exp.Action, targetQ),
         loss     |-> RatTimes((currentQ - targetQ) * (currentQ - targetQ), Half),
         targetQ  |-> targetQ,
         currentQ |-> currentQ])))

\* trainOnExperience as it would be if it took the loss after the update.
trainOnExperienceLossAfter(h, a, policy, target, exp) ==
    Then(IF exp.Done THEN exp.Reward
         ELSE exp.Reward
              + MulFrac(Max(Forward(h, target, Deref(h, exp.NextState))),
                        a.Gamma.num, a.Gamma.den), LAMBDA targetQ :
    Then(ForwardWithCache(h, policy, Deref(h, exp.State)), LAMBDA fwd :
    Then(Backward(h, policy, fwd.cache, fwd.output, exp.Action, targetQ), LAMBDA hb :
    Then(Forward(hb, policy, Deref(h, exp.State))[exp.Action + 1], LAMBDA currentQ :
        [heap     |-> hb,
         loss     |-> RatTimes((currentQ - targetQ) * (currentQ - targetQ), Half),
         targetQ  |-> targetQ,
         currentQ |-> currentQ]))))

\* trainOnExperience for the Experience exp of the heap: the heap after the
\* Backward pass, the loss returned, and the target and current Q-values.
trainOnExperience(h, a, policy, target, exp) ==
    Then(IF exp.Done THEN exp.Reward
         ELSE exp.Reward
              + MulFrac(Max(Forward(h, target, Deref(h, exp.NextState))),
                        a.Gamma.num, a.Gamma.den), LAMBDA targetQ :
    Then(ForwardWithCache(h, policy, Deref(h, exp.State)), LAMBDA fwd :
    Then(fwd.output[exp.Action + 1], LAMBDA currentQ :
        [heap     |-> Backward(h, policy, fwd.cache, fwd.output, exp.Action, targetQ),
         loss     |-> RatTimes((currentQ - targetQ) * (currentQ - targetQ), Half),
         targetQ  |-> targetQ,
         currentQ |-> currentQ])))

\* The loop of Train as it would be if every transition of the batch were
\* trained from the weights the batch started with, the last update alone
\* being kept.
RECURSIVE TrainBatchFromStart(_, _, _, _, _, _, _, _)
TrainBatchFromStart(h, a, policy, target, b, i, totalLoss, log) ==
    IF i > Len(b) THEN [heap |-> h, totalLoss |-> totalLoss, log |-> log]
    ELSE Then(trainOnExperience(h, a, policy, target, b[i]), LAMBDA t :
         Then(RatPlus(totalLoss, t.loss), LAMBDA total :
         Then(Append(log, [exp      |-> ExpValue(h, b[i]),
                           heap     |-> h,
                           targetQ  |-> t.targetQ,
                           currentQ |-> t.currentQ,
                           loss     |-> t.loss]), LAMBDA entries :
             TrainBatchFromStart(IF i = Len(b) THEN t.heap ELSE h,
                                 a, policy, target, b, i + 1, total, entries))))

\* The loop of Train over the batch from its element i on: the heap and the
\* total loss after it, and for each element what trainOnExperience started
\* from (the heap) and computed.
RECURSIVE TrainBatch(_, _, _, _, _, _, _, _)
TrainBatch(h, a, policy, target, b, i, totalLoss, log) ==
    IF i > Len(b) THEN [heap |-> h, totalLoss |-> totalLoss, log |-> log]
    ELSE Then(trainOnExperience(h, a, policy, target, b[i]), LAMBDA t :
         Then(RatPlus(totalLoss, t.loss), LAMBDA total :
         Then(Append(log, [exp      |-> ExpValue(h, b[i]),
                           heap     |-> h,
                           targetQ  |-> t.targetQ,
                           currentQ |-> t.currentQ,
                           loss     |-> t.loss]), LAMBDA entries :
             TrainBatch(t.heap, a, policy, target, b, i + 1, total, entries))))

\* UpdateTargetNetwork: the heap after target.CopyFrom(policy).
UpdateTargetNetwork(h, policy, target) == CopyFrom(h, target, policy)

\* What Train returns when it does not train.
NoTraining(h, a) ==
    [heap |-> h, agent |-> a, ret |-> RatZero, log |-> <<>>,
     trained |-> FALSE, synced |-> FALSE]

\* Train as it would be without the test of the train interval.
TrainEveryStep(h, a, policy, target, rbv, perm) ==
    LET a1 == [a EXCEPT !.StepCount = a.StepCount + 1]
    IN  IF Size(rbv) < a1.BatchSize THEN NoTraining(h, a1)
        ELSE Then(Sample(rbv, a1.BatchSize, perm), LAMBDA b :
             Then(TrainBatch(h, a1, policy, target, b, 1, RatZero, <<>>), LAMBDA t :
             Then(a1.StepCount % a1.TargetUpdate = 0, LAMBDA sync :
                 [heap    |-> IF sync THEN UpdateTargetNetwork(t.heap, policy, target)
                              ELSE t.heap,
                  agent   |-> a1,
                  ret     |-> RatOver(t.totalLoss, Len(b)),
                  log     |-> t.log,
                  trained |-> TRUE,
                  synced  |-> sync])))

\* Train as it would be if the target network were updated before the batch.
TrainSyncFirst(h, a, policy, target, rbv, perm) ==
    LET a1 == [a EXCEPT !.StepCount = a.StepCount + 1]
    IN  IF Size(rbv) < a1.BatchSize THEN NoTraining(h, a1)
        ELSE IF a1.StepCount % a1.TrainInterval # 0 THEN NoTraining(h, a1)
        ELSE Then(Sample(rbv, a1.BatchSize, perm), LAMBDA b :
             Then(a1.StepCount % a1.TargetUpdate = 0, LAMBDA sync :
             Then(TrainBatch(IF sync THEN UpdateTargetNetwork(h, policy, target) ELSE h,
                             a1, policy, target, b, 1, RatZero, <<>>), LAMBDA t :
                 [heap    |-> t.heap,
                  agent   |-> a1,
                  ret     |-> RatOver(t.totalLoss, Len(b)),
                  log     |-> t.log,
                  trained |-> TRUE,
                  synced  |-> sync])))

\* Train as it would be if it counted only the calls that train.
TrainCountingUpdates(h, a, policy, target, rbv, perm) ==
    LET a1 == [a EXCEPT !.StepCount = a.StepCount + 1]
    IN  IF Size(rbv) < a1.BatchSize THEN NoTraining(h, a)
        ELSE IF a1.StepCount % a1.TrainInterval # 0 THEN NoTraining(h, a)
        ELSE Then(Sample(rbv, a1.BatchSize, perm), LAMBDA b :
             Then(TrainBatch(h, a1, policy, target, b, 1, RatZero, <<>>), LAMBDA t :
             Then(a1.StepCount % a1.TargetUpdate = 0, LAMBDA sync :
                 [heap    |-> IF sync THEN UpdateTargetNetwork(t.heap, policy, target)
                              ELSE t.heap,
                  agent   |-> a1,
                  ret     |-> RatOver(t.totalLoss, Len(b)),
                  log     |-> t.log,
                  trained |-> TRUE,
                  synced  |-> sync])))

\* Train, the buffer's rng returning the permutation perm: the heap and the
\* agent's fields after it, the loss returned, what each transition of the
\* batch was trained from, whether the batch was trained on and whether the
\* target network was updated.
Train(h, a, policy, target, rbv, perm) ==
    LET a1 == [a EXCEPT !.StepCount = a.StepCount + 1]
    IN  IF Size(rbv) < a1.BatchSize THEN NoTraining(h, a1)
        ELSE IF a1.StepCount % a1.TrainInterval # 0 THEN NoTraining(h, a1)
        ELSE Then(Sample(rbv, a1.BatchSize, perm), LAMBDA b :
             Then(TrainBatch(h, a1, policy, target, b, 1, RatZero, <<>>), LAMBDA t :
             Then(a1.StepCount % a1.TargetUpdate = 0, LAMBDA sync :
                 [heap    |-> IF sync THEN UpdateTargetNetwork(t.heap, policy, target)
                              ELSE t.heap,
                  agent   |-> a1,
                  ret     |-> RatOver(t.totalLoss, Len(b)),
                  log     |-> t.log,
                  trained |-> TRUE,
                  synced  |-> sync])))

(* Model files (encoding/gob, as Save and LoadNetwork use it).  A file is  *)
(* missing, or bytes that are no gob stream, or the stream an Encoder      *)
(* wrote for a struct: the layout of the struct (the names and types of    *)
(* its fields, which the stream describes) and the values of the fields    *)
(* sent.  An Encoder does not send a field that has the zero value of its  *)
(* type; a Decoder leaves the fields it is not sent as they are, ignores   *)
(* the fields the receiver does not have, and fails when a field of the    *)
(* stream and the receiver's field of that name have different types.      *)

\* The fields of the two layouts and their types.
FieldTypes(layout) ==
    IF layout = "NetworkWeights"
    THEN [W1 |-> "[][]float64", B1 |-> "[]float64",
          W2 |-> "[][]float64", B2 |-> "[]float64",
          W3 |-> "[][]float64", B3 |-> "[]float64",
          InputSize |-> "int", HiddenSize1 |-> "int", HiddenSize2 |-> "int",
          OutputSize |-> "int", LearningRate |-> "float64"]
    ELSE [W1 |-> "[][]float64", B1 |-> "[][]float64", B1Vec |-> "[]float64",
          W2 |-> "[][]float64", B2 |-> "[][]float64", B2Vec |-> "[]float64",
          W3 |-> "[][]float64", B3 |-> "[][]float64", B3Vec |-> "[]float64",
          InputSize |-> "int", HiddenSize1 |-> "int", HiddenSize2 |-> "int",
          OutputSize |-> "int", LearningRate |-> "float64"]

\* The zero value of a type: 0, or the nil slice.
ZeroValue(type) == IF type \in {"int", "float64"} THEN 0 ELSE <<>>

\* encoder.Encode(value) for a struct of the layout: the file written.
Encode(layout, value) ==
    [kind   |-> "gob",
     layout |-> layout,
     fields |-> [f \in {g \in DOMAIN value : value[g] # ZeroValue(FieldTypes(layout)[g])}
                   |-> value[f]]]

\* decoder.Decode(&v) for v a zero struct of the layout: an error, or v.
Decode(file, layout) ==
    LET recv == FieldTypes(layout)
        zero == [f \in DOMAIN recv |-> ZeroValue(recv[f])]
    IN  IF file.kind # "gob" THEN [err |-> TRUE, value |-> zero]
        ELSE LET wire   == FieldTypes(file.layout)
                 common == DOMAIN wire \cap DOMAIN recv
             IN  IF common = {} \/ \E f \in common : wire[f] # recv[f]
                 THEN [err |-> TRUE, value |-> zero]
                 ELSE [err   |-> FALSE,
                       value |-> [f \in DOMAIN recv |->
                                     IF f \in DOMAIN file.fields THEN file.fields[f]
                                     ELSE zero[f]]]

\* The NetworkWeights struct Save makes of a network.
NetworkWeights(h, n) ==
    [W1 |-> Matrix(h, n.W1), B1 |-> Deref(h, n.B1),
     W2 |-> Matrix(h, n.W2), B2 |-> Deref(h, n.B2),
     W3 |-> Matrix(h, n.W3), B3 |-> Deref(h, n.B3),
     InputSize |-> n.InputSize, HiddenSize1 |-> n.HiddenSize1,
     HiddenSize2 |-> n.HiddenSize2, OutputSize |-> n.OutputSize,
     LearningRate |-> n.LearningRate]

\* Save as it would be if it wrote the biases as zeros.
SaveZeroBias(h, n) ==
    Encode("NetworkWeights",
           [NetworkWeights(h, n) EXCEPT !.B1 = Zeros(Len(h[n.B1])),
                                        !.B2 = Zeros(Len(h[n.B2])),
                                        !.B3 = Zeros(Len(h[n.B3]))])

\* n.Save(path), os.Create succeeding: the file written.
Save(h, n) == Encode("NetworkWeights", NetworkWeights(h, n))

\* The NetworkWeights LoadNetwork makes of a decoded legacyNetworkWeights.
FromLegacy(l) ==
    [W1 |-> l.W1, B1 |-> l.B1Vec, W2 |-> l.W2, B2 |-> l.B2Vec,
     W3 |-> l.W3, B3 |-> l.B3Vec,
     InputSize |-> l.InputSize, HiddenSize1 |-> l.HiddenSize1,
     HiddenSize2 |-> l.HiddenSize2, OutputSize |-> l.OutputSize,
     LearningRate |-> l.LearningRate]

\* The model files a driver loads: none at the path, one that is no gob
\* stream, one that Save wrote, and one of the legacy layout, its matrix-shaped
\* bias fields nil.
ModelFiles ==
    { [kind |-> "missing"],
      [kind |-> "garbage"],
      Encode("NetworkWeights",
             [W1 |-> << <<1>> >>, B1 |-> <<1>>,
              W2 |-> << <<1>> >>, B2 |-> <<0>>,
              W3 |-> << <<2, 0, 1>> >>, B3 |-> <<0, 1, 0>>,
              InputSize |-> 1, HiddenSize1 |-> 1, HiddenSize2 |-> 1, OutputSize |-> 3,
              LearningRate |-> 1]),
      Encode("legacyNetworkWeights",
             [W1 |-> << <<1>> >>, B1 |-> <<>>, B1Vec |-> <<0>>,
              W2 |-> << <<1>> >>, B2 |-> <<>>, B2Vec |-> <<1>>,
              W3 |-> << <<0, 1, 2>> >>, B3 |-> <<>>, B3Vec |-> <<0, 0, 1>>,
              InputSize |-> 1, HiddenSize1 |-> 1, HiddenSize2 |-> 1, OutputSize |-> 3,
              LearningRate |-> 1]) }

\* The QNetwork LoadNetwork makes of the weights: the heap with the decoded
\* slices and the network.
NetworkOf(h, used, weights) ==
    LET w1 == NewAddrs(used, Len(weights.W1))
        u1 == used \cup Range(w1)
        b1 == NewAddr(u1)
        u2 == u1 \cup {b1}
        w2 == NewAddrs(u2, Len(weights.W2))
        u3 == u2 \cup Range(w2)
        b2 == NewAddr(u3)
        u4 == u3 \cup {b2}
        w3 == NewAddrs(u4, Len(weights.W3))
        u5 == u4 \cup Range(w3)
        b3 == NewAddr(u5)
        hw == StoreRows(StoreRows(StoreRows(h, w1, weights.W1, 1), w2, weights.W2, 1),
                        w3, weights.W3, 1)
    IN  [heap |-> [hw EXCEPT ![b1] = weights.B1, ![b2] = weights.B2, ![b3] = weights.B3],
         net  |-> [W1 |-> w1, B1 |-> b1, W2 |-> w2, B2 |-> b2, W3 |-> w3, B3 |-> b3,
                   InputSize |-> weights.InputSize, HiddenSize1 |-> weights.HiddenSize1,
                   HiddenSize2 |-> weights.HiddenSize2, OutputSize |-> weights.OutputSize,
                   LearningRate |-> weights.LearningRate]]

\* LoadNetwork as it would be if it decoded the legacy layout first.
LoadNetworkLegacyFirst(h, used, file) ==
    IF file.kind = "missing"
    THEN [err |-> TRUE, heap |-> h, net |-> NoNet, decoded |-> <<>>]
    ELSE Then(Decode(file, "legacyNetworkWeights"), LAMBDA legacy :
         IF ~legacy.err
         THEN Then(NetworkOf(h, used, FromLegacy(legacy.value)), LAMBDA r :
                  [err |-> FALSE, heap |-> r.heap, net |-> r.net,
                   decoded |-> <<"legacyNetworkWeights">>])
         ELSE Then(Decode(file, "NetworkWeights"), LAMBDA current :
              IF current.err
              THEN [err |-> TRUE, heap |-> h, net |-> NoNet,
                    decoded |-> <<"legacyNetworkWeights", "NetworkWeights">>]
              ELSE Then(NetworkOf(h, used, current.value), LAMBDA r :
                       [err |-> FALSE, heap |-> r.heap, net |-> r.net,
                        decoded |-> <<"legacyNetworkWeights", "NetworkWeights">>])))

\* LoadNetwork: an error and no network, or the heap with the decoded slices
\* and the network made of them; decoded are the layouts it tried to decode,
\* in order.
LoadNetwork(h, used, file) ==
    IF file.kind = "missing"
    THEN [err |-> TRUE, heap |-> h, net |-> NoNet, decoded |-> <<>>]
    ELSE Then(Decode(file, "NetworkWeights"), LAMBDA current :
         IF ~current.err
         THEN Then(NetworkOf(h, used, current.value), LAMBDA r :
                  [err |-> FALSE, heap |-> r.heap, net |-> r.net,
                   decoded |-> <<"NetworkWeights">>])
         ELSE Then(Decode(file, "legacyNetworkWeights"), LAMBDA legacy :
              IF legacy.err
              THEN [err |-> TRUE, heap |-> h, net |-> NoNet,
                    decoded |-> <<"NetworkWeights", "legacyNetworkWeights">>]
              ELSE Then(NetworkOf(h, used, FromLegacy(legacy.value)), LAMBDA r :
                       [err |-> FALSE, heap |-> r.heap, net |-> r.net,
                        decoded |-> <<"NetworkWeights", "legacyNetworkWeights">>])))

\* Load as it would be if it kept the target network it had.
LoadKeepingTarget(h, used, policy, target, file) ==
    Then(LoadNetwork(h, used \cup NetAddrs(target), file), LAMBDA l :
        IF l.err
        THEN [err |-> TRUE, heap |-> h, PolicyNet |-> policy, TargetNet |-> target]
        ELSE [err |-> FALSE, heap |-> l.heap, PolicyNet |-> l.net, TargetNet |-> target])

\* Load as it would be if it assigned the result of LoadNetwork before looking
\* at the error.
LoadAssigningFirst(h, used, policy, target, file) ==
    Then(LoadNetwork(h, used, file), LAMBDA l :
        IF l.err
        THEN [err |-> TRUE, heap |-> h, PolicyNet |-> l.net, TargetNet |-> target]
        ELSE Then(Clone(l.heap, used \cup NetAddrs(l.net), l.net), LAMBDA c :
                 [err |-> FALSE, heap |-> c.heap, PolicyNet |-> l.net,
                  TargetNet |-> c.net]))

\* DQNAgent.Load: the error returned, the heap and the two networks after it.
\* used are the addresses the loaded networks may not take.
Load(h, used, policy, target, file) ==
    Then(LoadNetwork(h, used, file), LAMBDA l :
        IF l.err
        THEN [err |-> TRUE, heap |-> h, PolicyNet |-> policy, TargetNet |-> target]
        ELSE Then(Clone(l.heap, used \cup NetAddrs(l.net), l.net), LAMBDA c :
                 [err |-> FALSE, heap |-> c.heap, PolicyNet |-> l.net,
                  TargetNet |-> c.net]))

-----------------------------------------------------------------------------
(* Direction, Position and Snake (internal/game/snake.go).                 *)

Up == 0
Down == 1
Left == 2
Right == 3

Directions == {Up, Down, Left, Right}

\* d.Opposite().
Opposite(d) ==
    CASE d = Up -> Down
      [] d = Down -> Up
      [] d = Left -> Right
      [] d = Right -> Left
      [] OTHER -> d

\* d.TurnLeft().
TurnLeft(d) ==
    CASE d = Up -> Left
      [] d = Left -> Down
      [] d = Down -> Right
      [] d = Right -> Up
      [] OTHER -> d

\* d.TurnRight().
TurnRight(d) ==
    CASE d = Up -> Right
      [] d = Right -> Down
      [] d = Down -> Left
      [] d = Left -> Up
      [] OTHER -> d

Position(x, y) == [X |-> x, Y |-> y]

\* p.Add(dx, dy).
PosAdd(p, dx, dy) == Position(p.X + dx, p.Y + dy)

\* The step NewSnake lays the body along, behind a head facing dir.
BehindOf(dir) ==
    CASE dir = Up -> Position(0, 1)
      [] dir = Down -> Position(0, -1)
      [] dir = Left -> Position(1, 0)
      [] dir = Right -> Position(-1, 0)
      [] OTHER -> Position(0, 0)

\* The slice of the positions f[1], ..., f[n], in full.
Cells(f, n) == Floats(f, n)

\* NewSnake(id, head, dir, length), for length >= 1.  Body[1] is the head.
NewSnake(id, head, dir, length) ==
    [ID |-> id,
     Body |-> Cells([i \in 1..length |->
                        Position(head.X + BehindOf(dir).X * (i - 1),
                                 head.Y + BehindOf(dir).Y * (i - 1))], length),
     Direction |-> dir, Alive |-> TRUE, Score |-> 0, Grew |-> FALSE]

\* s.Head().
SnakeHead(s) == s.Body[1]

\* s.Length().
Length(s) == Len(s.Body)

\* s.NextHead(dir).
NextHead(s, dir) ==
    CASE dir = Up -> PosAdd(SnakeHead(s), 0, -1)
      [] dir = Down -> PosAdd(SnakeHead(s), 0, 1)
      [] dir = Left -> PosAdd(SnakeHead(s), -1, 0)
      [] dir = Right -> PosAdd(SnakeHead(s), 1, 0)
      [] OTHER -> SnakeHead(s)

\* Move as it would be without the test for a turn of 180 degrees.
MoveReversing(s, dir, grow) ==
    IF ~s.Alive THEN s
    ELSE [s EXCEPT !.Direction = dir,
                   !.Grew = grow,
                   !.Body = IF grow THEN <<NextHead(s, dir)>> \o s.Body
                            ELSE SubSeq(<<NextHead(s, dir)>> \o s.Body, 1, Len(s.Body))]

\* s.Move(dir, grow): the snake after the call.
Move(s, dir, grow) ==
    IF ~s.Alive THEN s
    ELSE LET d == IF dir = Opposite(s.Direction) THEN s.Direction ELSE dir
             newBody == <<NextHead(s, d)>> \o s.Body
         IN  [s EXCEPT !.Direction = d,
                       !.Grew = grow,
                       !.Body = IF grow THEN newBody
                                ELSE SubSeq(newBody, 1, Len(newBody) - 1)]

\* s.ContainsPosition(pos, excludeHead).
ContainsPosition(s, pos, excludeHead) ==
    \E i \in (IF excludeHead THEN 2 ELSE 1)..Len(s.Body) : s.Body[i] = pos

\* s.Kill().
Kill(s) == [s EXCEPT !.Alive = FALSE]

-----------------------------------------------------------------------------
(* Collisions and the Game (internal/game/collision.go, game.go).          *)

\* A pair indexed by the snake IDs 0 and 1, as [2]T is.
Pair(a, b) == (0 :> a) @@ (1 :> b)

\* CheckWallCollision(pos, width, height).
CheckWallCollision(pos, width, height) ==
    pos.X < 0 \/ pos.X >= width \/ pos.Y < 0 \/ pos.Y >= height

\* CheckSelfCollision(snake).
CheckSelfCollision(s) ==
    IF ~s.Alive \/ Len(s.Body) < 2 THEN FALSE
    ELSE ContainsPosition(s, SnakeHead(s), TRUE)

\* CheckSnakeCollision(snake1, snake2).
CheckSnakeCollision(s1, s2) ==
    IF ~s1.Alive \/ ~s2.Alive THEN FALSE
    ELSE ContainsPosition(s2, SnakeHead(s1), FALSE)

\* CheckHeadToHeadCollision(snake1, snake2).
CheckHeadToHeadCollision(s1, s2) ==
    IF ~s1.Alive \/ ~s2.Alive THEN FALSE
    ELSE SnakeHead(s1) = SnakeHead(s2)

CollisionResult(type, snakeID, position) ==
    [Type |-> type, SnakeID |-> snakeID, Position |-> position]

\* The wall and self collisions CheckAllCollisions finds for one snake.
OwnCollisions(s, width, height) ==
    IF ~s.Alive THEN <<>>
    ELSE (IF CheckWallCollision(SnakeHead(s), width, height)
          THEN <<CollisionResult("WallCollision", 0, SnakeHead(s))>> ELSE <<>>)
         \o (IF CheckSelfCollision(s)
             THEN <<CollisionResult("SelfCollision", 0, SnakeHead(s))>> ELSE <<>>)

\* The collisions with the other snake CheckAllCollisions finds for snake i.
OtherCollisions(snakes, i) ==
    IF ~(snakes[0].Alive /\ snakes[1].Alive) THEN <<>>
    ELSE IF CheckHeadToHeadCollision(snakes[0], snakes[1])
         THEN <<CollisionResult("HeadToHeadCollision", 1 - i, SnakeHead(snakes[i]))>>
         ELSE IF CheckSnakeCollision(snakes[i], snakes[1 - i])
              THEN <<CollisionResult("OtherSnakeCollision", 1 - i, SnakeHead(snakes[i]))>>
              ELSE <<>>

\* CheckAllCollisions(snakes, width, height).
CheckAllCollisions(snakes, width, height) ==
    Pair(OwnCollisions(snakes[0], width, height) \o OtherCollisions(snakes, 0),
         OwnCollisions(snakes[1], width, height) \o OtherCollisions(snakes, 1))

\* IsDangerPosition as it would be if it left out the other snake.
IsDangerPositionOwnOnly(pos, snakeID, snakes, width, height) ==
    \/ CheckWallCollision(pos, width, height)
    \/ ContainsPosition(snakes[snakeID], pos, TRUE)

\* IsDangerPosition(pos, snakeID, snakes, width, height).
IsDangerPosition(pos, snakeID, snakes, width, height) ==
    \/ CheckWallCollision(pos, width, height)
    \/ ContainsPosition(snakes[snakeID], pos, TRUE)
    \/ snakes[1 - snakeID].Alive /\ ContainsPosition(snakes[1 - snakeID], pos, FALSE)

\* ManhattanDistance(p1, p2).
ManhattanDistance(p1, p2) ==
    (IF p1.X - p2.X < 0 THEN p2.X - p1.X ELSE p1.X - p2.X)
    + (IF p1.Y - p2.Y < 0 THEN p2.Y - p1.Y ELSE p1.Y - p2.Y)

\* The rewards of calculateRewards, in hundredths.
DeathPenalty == -100
SurvivalBonus == 1
FoodReward == 50
WinBonus == 100

\* g.calculateRewards(ateFood, died).
calculateRewards(ateFood, died) ==
    LET reward(i) == IF died[i] THEN DeathPenalty
                     ELSE SurvivalBonus + (IF ateFood[i] THEN FoodReward ELSE 0)
                                        + (IF died[1 - i] THEN WinBonus ELSE 0)
    IN  Pair(reward(0), reward(1))

\* The cell of index k (from 0) in the order spawnFood scans the board: x in
\* the outer loop, y in the inner.
ScanCell(k, height) == Position(k \div height, k % height)

\* The cells a snake occupies.
BodyCells(s) == {s.Body[i] : i \in 1..Len(s.Body)}

\* emptyPositions of spawnFood: the cells no snake occupies, in scan order.
RECURSIVE EmptyFrom(_, _, _, _)
EmptyFrom(occupied, width, height, k) ==
    IF k >= width * height THEN <<>>
    ELSE (IF ScanCell(k, height) \in occupied THEN <<>> ELSE <<ScanCell(k, height)>>)
         \o EmptyFrom(occupied, width, height, k + 1)

EmptyPositions(snakes, width, height) ==
    EmptyFrom(BodyCells(snakes[0]) \cup BodyCells(snakes[1]), width, height, 0)

\* g.spawnFood(), the rng returning idx for Intn(len(emptyPositions)): the Food
\* after it.
spawnFood(snakes, width, height, food, idx) ==
    Then(EmptyPositions(snakes, width, height), LAMBDA emptyPositions :
        IF Len(emptyPositions) > 0
        THEN [Position |-> emptyPositions[idx + 1], Active |-> TRUE]
        ELSE [food EXCEPT !.Active = FALSE])

\* The number of cells spawnFood can choose from, the rng's Intn argument.
SpawnChoices(snakes, width, height) == Len(EmptyPositions(snakes, width, height))

\* The zero value of StepResult, with Winner -1 as Step sets it.
NoResult ==
    [Rewards |-> Pair(0, 0), AteFood |-> Pair(FALSE, FALSE), Died |-> Pair(FALSE, FALSE),
     GameOver |-> FALSE, Winner |-> -1]

\* Reset as it would be if it made the snakes two cells long.
ResetShortSnakes(width, height, idx) ==
    Then(Pair(NewSnake(0, Position(3, height \div 2), Right, 2),
              NewSnake(1, Position(width - 4, height \div 2), Left, 2)), LAMBDA snakes :
        [Width |-> width, Height |-> height, Snakes |-> snakes,
         Food |-> spawnFood(snakes, width, height,
                            [Position |-> Position(0, 0), Active |-> FALSE], idx),
         Turn |-> 0, GameOver |-> FALSE, Winner |-> -1])

\* g.Reset(), the rng returning idx to spawnFood: the GameState after it.
Reset(width, height, idx) ==
    Then(Pair(NewSnake(0, Position(3, height \div 2), Right, 3),
              NewSnake(1, Position(width - 4, height \div 2), Left, 3)), LAMBDA snakes :
        [Width |-> width, Height |-> height, Snakes |-> snakes,
         Food |-> spawnFood(snakes, width, height,
                            [Position |-> Position(0, 0), Active |-> FALSE], idx),
         Turn |-> 0, GameOver |-> FALSE, Winner |-> -1])

\* willEat of Step for snake i.
WillEat(st, actions, i) ==
    /\ st.Snakes[i].Alive
    /\ st.Food.Active
    /\ NextHead(st.Snakes[i], actions[i]) = st.Food.Position

\* The snakes of Step after the moves and the scores.
MovedSnakes(st, actions) ==
    LET moved(i) == IF st.Snakes[i].Alive
                    THEN Move(st.Snakes[i], actions[i], WillEat(st, actions, i))
                    ELSE st.Snakes[i]
        scored(i) == IF WillEat(st, actions, i)
                     THEN [moved(i) EXCEPT !.Score = @ + 1] ELSE moved(i)
    IN  Pair(scored(0), scored(1))

\* The end of Step as it would be if snake 0 won when both snakes died.
OutcomeFirstWins(alive0, alive1) ==
    IF ~alive0 /\ ~alive1 THEN [GameOver |-> TRUE, Winner |-> 0]
    ELSE IF ~alive0 THEN [GameOver |-> TRUE, Winner |-> 1]
    ELSE IF ~alive1 THEN [GameOver |-> TRUE, Winner |-> 0]
    ELSE [GameOver |-> FALSE, Winner |-> -1]

\* The end of Step: GameOver and Winner from the snakes left alive.
Outcome(alive0, alive1) ==
    IF ~alive0 /\ ~alive1 THEN [GameOver |-> TRUE, Winner |-> -1]
    ELSE IF ~alive0 THEN [GameOver |-> TRUE, Winner |-> 1]
    ELSE IF ~alive1 THEN [GameOver |-> TRUE, Winner |-> 0]
    ELSE [GameOver |-> FALSE, Winner |-> -1]

\* Step as it would be if a call on a finished game counted a turn.
StepCountingFinished(st, actions, idx) ==
    IF st.GameOver
    THEN [State  |-> [st EXCEPT !.Turn = st.Turn + 1],
          result |-> [NoResult EXCEPT !.GameOver = TRUE, !.Winner = st.Winner]]
    ELSE
    Then(Pair(WillEat(st, actions, 0), WillEat(st, actions, 1)), LAMBDA willEat :
    Then(MovedSnakes(st, actions), LAMBDA moved :
    Then(IF willEat[0] \/ willEat[1]
         THEN spawnFood(moved, st.Width, st.Height, st.Food, idx) ELSE st.Food, LAMBDA food :
    Then(CheckAllCollisions(moved, st.Width, st.Height), LAMBDA collisions :
    Then(Pair(Len(collisions[0]) > 0, Len(collisions[1]) > 0), LAMBDA died :
    Then(Pair(IF died[0] THEN Kill(moved[0]) ELSE moved[0],
              IF died[1] THEN Kill(moved[1]) ELSE moved[1]), LAMBDA snakes :
    Then(Outcome(snakes[0].Alive, snakes[1].Alive), LAMBDA end :
        [State |-> [st EXCEPT !.Turn = st.Turn + 1,
                              !.Snakes = snakes,
                              !.Food = food,
                              !.GameOver = end.GameOver,
                              !.Winner = IF end.GameOver THEN end.Winner ELSE st.Winner],
         result |-> [Rewards |-> calculateRewards(willEat, died),
                     AteFood |-> willEat,
                     Died |-> died,
                     GameOver |-> end.GameOver,
                     Winner |-> end.Winner]])))))))

\* g.Step(actions), the rng returning idx if spawnFood asks it: the GameState
\* after the call and the StepResult returned.
Step(st, actions, idx) ==
    IF st.GameOver
    THEN [State |-> st, result |-> [NoResult EXCEPT !.GameOver = TRUE, !.Winner = st.Winner]]
    ELSE
    Then(Pair(WillEat(st, actions, 0), WillEat(st, actions, 1)), LAMBDA willEat :
    Then(MovedSnakes(st, actions), LAMBDA moved :
    Then(IF willEat[0] \/ willEat[1]
         THEN spawnFood(moved, st.Width, st.Height, st.Food, idx) ELSE st.Food, LAMBDA food :
    Then(CheckAllCollisions(moved, st.Width, st.Height), LAMBDA collisions :
    Then(Pair(Len(collisions[0]) > 0, Len(collisions[1]) > 0), LAMBDA died :
    Then(Pair(IF died[0] THEN Kill(moved[0]) ELSE moved[0],
              IF died[1] THEN Kill(moved[1]) ELSE moved[1]), LAMBDA snakes :
    Then(Outcome(snakes[0].Alive, snakes[1].Alive), LAMBDA end :
        [State |-> [st EXCEPT !.Turn = st.Turn + 1,
                              !.Snakes = snakes,
                              !.Food = food,
                              !.GameOver = end.GameOver,
                              !.Winner = IF end.GameOver THEN end.Winner ELSE st.Winner],
         result |-> [Rewards |-> calculateRewards(willEat, died),
                     AteFood |-> willEat,
                     Died |-> died,
                     GameOver |-> end.GameOver,
                     Winner |-> end.Winner]])))))))

-----------------------------------------------------------------------------
(* Relative actions (internal/ai/state.go).                                *)

GoStraight == 0
TurnLeftAction == 1
TurnRightAction == 2

\* ActionToDirection as it would be with the two turns exchanged.
ActionToDirectionSwapped(currentDir, action) ==
    CASE action = GoStraight -> currentDir
      [] action = TurnLeftAction -> TurnRight(currentDir)
      [] action = TurnRightAction -> TurnLeft(currentDir)
      [] OTHER -> currentDir

\* ActionToDirection(currentDir, action).
ActionToDirection(currentDir, action) ==
    CASE action = GoStraight -> currentDir
      [] action = TurnLeftAction -> TurnLeft(currentDir)
      [] action = TurnRightAction -> TurnRight(currentDir)
      [] OTHER -> currentDir

\* StateSize, the number of features.
StateSize == 22

\* The float64 literal 1.0.
RatOne == [num |-> 1, den |-> 1]

\* boolToFloat(b).
boolToFloat(b) == IF b THEN RatOne ELSE RatZero

\* isDanger(pos, snakeID, state).
isDanger(pos, snakeID, st) ==
    IsDangerPosition(pos, snakeID, st.Snakes, st.Width, st.Height)

\* isDangerExtended as it would be if it asked for danger at both steps.
isDangerExtendedBoth(step1, step2, snakeID, st) ==
    isDanger(step1, snakeID, st) /\ isDanger(step2, snakeID, st)

\* isDangerExtended(step1, step2, snakeID, state).
isDangerExtended(step1, step2, snakeID, st) ==
    IF isDanger(step1, snakeID, st) THEN TRUE ELSE isDanger(step2, snakeID, st)

\* tempSnake of EncodeState: a snake whose only cell is pos.
TempSnake(pos) == [Body |-> <<pos>>]

\* minDist of EncodeState: the distance from head to the nearest of the
\* segments from i on, or limit if none is nearer.
RECURSIVE MinDistFrom(_, _, _, _)
MinDistFrom(head, body, i, limit) ==
    IF i > Len(body) THEN limit
    ELSE MinDistFrom(head, body, i + 1,
                     IF ManhattanDistance(head, body[i]) < limit
                     THEN ManhattanDistance(head, body[i]) ELSE limit)

\* The features EncodeState writes for a living snake; k is the index from 0.
EncodeLiving(st, snakeID) ==
    LET s == st.Snakes[snakeID]
        otherSnake == st.Snakes[1 - snakeID]
        head == SnakeHead(s)
        dir == s.Direction
        straightPos == NextHead(s, dir)
        leftPos == NextHead(s, TurnLeft(dir))
        rightPos == NextHead(s, TurnRight(dir))
        straight2 == NextHead(TempSnake(straightPos), dir)
        left2 == NextHead(TempSnake(leftPos), TurnLeft(dir))
        right2 == NextHead(TempSnake(rightPos), TurnRight(dir))
        maxDist == st.Width + st.Height
        maxLength == (st.Width * st.Height) \div 2
        foodPos == st.Food.Position
        oppHead == SnakeHead(otherSnake)
        feature(k) ==
            CASE k = 0 -> boolToFloat(isDanger(straightPos, snakeID, st))
              [] k = 1 -> boolToFloat(isDanger(leftPos, snakeID, st))
              [] k = 2 -> boolToFloat(isDanger(rightPos, snakeID, st))
              [] k \in 3..6 -> boolToFloat(k = 3 + dir)
              [] k = 7 -> boolToFloat(st.Food.Active /\ foodPos.Y < head.Y)
              [] k = 8 -> boolToFloat(st.Food.Active /\ foodPos.Y > head.Y)
              [] k = 9 -> boolToFloat(st.Food.Active /\ foodPos.X < head.X)
              [] k = 10 -> boolToFloat(st.Food.Active /\ foodPos.X > head.X)
              [] k = 11 -> boolToFloat(otherSnake.Alive /\ oppHead.Y < head.Y)
              [] k = 12 -> boolToFloat(otherSnake.Alive /\ oppHead.Y > head.Y)
              [] k = 13 -> boolToFloat(otherSnake.Alive /\ oppHead.X < head.X)
              [] k = 14 -> boolToFloat(otherSnake.Alive /\ oppHead.X > head.X)
              [] k = 15 -> IF otherSnake.Alive
                           THEN [num |-> maxDist - ManhattanDistance(head, oppHead),
                                 den |-> maxDist]
                           ELSE RatZero
              [] k = 16 -> IF otherSnake.Alive
                           THEN [num |-> maxDist - MinDistFrom(head, otherSnake.Body, 1,
                                                               maxDist),
                                 den |-> maxDist]
                           ELSE RatZero
              [] k = 17 -> [num |-> Length(s), den |-> maxLength]
              [] k = 18 -> IF otherSnake.Alive
                           THEN [num |-> Length(otherSnake), den |-> maxLength]
                           ELSE RatZero
              [] k = 19 -> boolToFloat(isDangerExtended(straightPos, straight2, snakeID, st))
              [] k = 20 -> boolToFloat(isDangerExtended(leftPos, left2, snakeID, st))
              [] k = 21 -> boolToFloat(isDangerExtended(rightPos, right2, snakeID, st))
    IN  Cells([i \in 1..StateSize |-> feature(i - 1)], StateSize)

\* EncodeState as it would be without the early return for a dead snake.
EncodeStateOfDead(st, snakeID) == EncodeLiving(st, snakeID)

\* EncodeState(state, snakeID): the features, features[k] of the code at k + 1.
EncodeState(st, snakeID) ==
    IF ~st.Snakes[snakeID].Alive
    THEN Cells([i \in 1..StateSize |-> RatZero], StateSize)
    ELSE EncodeLiving(st, snakeID)

\* The shaping rewards 0.1 and -0.1, in hundredths.
TowardFood == 10
AwayFromFood == -10

\* CalculateShapingReward as it would be if it counted an unchanged distance
\* as an approach.
CalculateShapingRewardLoose(prevState, newState, snakeID) ==
    IF ~prevState.Snakes[snakeID].Alive \/ ~newState.Snakes[snakeID].Alive THEN 0
    ELSE IF ~prevState.Food.Active \/ ~newState.Food.Active THEN 0
    ELSE LET prevDist == ManhattanDistance(SnakeHead(prevState.Snakes[snakeID]),
                                           prevState.Food.Position)
             newDist == ManhattanDistance(SnakeHead(newState.Snakes[snakeID]),
                                          newState.Food.Position)
         IN  IF newDist <= prevDist THEN TowardFood ELSE AwayFromFood

\* CalculateShapingReward(prevState, newState, snakeID), in hundredths.
CalculateShapingReward(prevState, newState, snakeID) ==
    IF ~prevState.Snakes[snakeID].Alive \/ ~newState.Snakes[snakeID].Alive THEN 0
    ELSE IF ~prevState.Food.Active \/ ~newState.Food.Active THEN 0
    ELSE LET prevDist == ManhattanDistance(SnakeHead(prevState.Snakes[snakeID]),
                                           prevState.Food.Position)
             newDist == ManhattanDistance(SnakeHead(newState.Snakes[snakeID]),
                                          newState.Food.Position)
         IN  IF newDist < prevDist THEN TowardFood
             ELSE IF newDist > prevDist THEN AwayFromFood
             ELSE 0

-----------------------------------------------------------------------------
(* The replay buffer driven alone: any interleaving of Add, Sample, Clear. *)

\* A caller's Experience for transition t: its two slices are arrays of the
\* caller's own, at addresses c1 and c2.
CallerExp(t, c1, c2) ==
    [State |-> c1, Action |-> t.Action, Reward |-> t.Reward,
     NextState |-> c2, Done |-> t.Done]

\* No file at the path.
NoFile == [kind |-> "missing"]

\* No Game, no Snake and no second agent have been made.
NoGame == [made |-> FALSE]
NoSnake == [made |-> FALSE]
NoTwin == [made |-> FALSE]
NoRenderer == [made |-> FALSE]

\* What lastOp records: the operation and its integer argument.
Op(name, n) == [op |-> name, n |-> n]

\* The buffer is driven without an agent.
NoAgent == [Epsilon |-> 0, StepCount |-> 0]

\* No Train or Backward made the last step.
NoLast == [trained |-> FALSE]

InitBuffer ==
    /\ heap = [a \in Addr |-> <<>>]
    /\ \E cap \in 1..MaxCapacity : rb = NewReplayBuffer(cap)
    /\ batch = <<>>
    /\ indices = <<>>
    /\ added = <<>>
    /\ agent = NoAgent
    /\ policyNet = NoNet
    /\ targetNet = NoNet
    /\ decays = 0
    /\ last = NoLast
    /\ lastOp = Op("NewReplayBuffer", 0)
    /\ disk = NoFile
    /\ caller = ZeroExperience
    /\ game = NoGame
    /\ snake = NoSnake
    /\ twin = NoTwin
    /\ trains = 0
    /\ renderer = NoRenderer

\* The addresses in use when Add runs: those of every slot but the one about to
\* be overwritten, whose arrays nothing else refers to (the batch of an earlier
\* Sample is out of scope by then: Train, the one caller of Sample, has
\* returned).
LiveAtAdd(rbv) ==
    UNION {ExpAddrs(rbv.buffer[i]) : i \in DOMAIN rbv.buffer \ {rbv.position}}

\* rb.Add(exp) with exp a transition whose two slices are fresh arrays of the
\* caller, dropped when Add returns.
DoAdd ==
    /\ Len(added) < MaxAdds
    /\ \E t \in Transitions :
         LET live == LiveAtAdd(rb)
             c1 == NewAddr(live)
             c2 == NewAddr(live \cup {c1})
             h1 == [heap EXCEPT ![c1] = t.State, ![c2] = t.NextState]
             r  == Add(h1, rb, CallerExp(t, c1, c2), live \cup {c1, c2})
         IN  /\ rb' = r.rb
             /\ heap' = Collect(r.heap, BufferAddrs(r.rb))
             /\ added' = Append(added, t)
    /\ batch' = <<>>
    /\ indices' = <<>>
    /\ lastOp' = Op("Add", 0)
    /\ UNCHANGED agentVars
    /\ UNCHANGED envVars

\* rb.Sample(n), the rng returning any permutation.
DoSample ==
    /\ \E n \in 0..MaxSample : \E perm \in Perm(rb.size) :
         /\ batch' = Sample(rb, n, perm)
         /\ indices' = SampleIndices(rb, n, perm)
         /\ lastOp' = Op("Sample", n)
    /\ UNCHANGED <<heap, rb, added>>
    /\ UNCHANGED agentVars
    /\ UNCHANGED envVars

\* rb.Clear().
DoClear ==
    /\ rb' = Clear(rb)
    /\ added' = <<>>
    /\ batch' = <<>>
    /\ indices' = <<>>
    /\ lastOp' = Op("Clear", 0)
    /\ UNCHANGED heap
    /\ UNCHANGED agentVars
    /\ UNCHANGED envVars

NextBuffer == DoAdd \/ DoSample \/ DoClear

SpecBuffer == InitBuffer /\ [][NextBuffer]_vars

-----------------------------------------------------------------------------
(* Properties of the replay buffer.                                        *)

Min(a, b) == IF a < b THEN a ELSE b

\* The valid transitions of the buffer by value, oldest first: the newest is the
\* slot before position, size slots back from it is the oldest.
Stored(h, rbv) ==
    [i \in 1..rbv.size |->
        ExpValue(h, rbv.buffer[(rbv.position + rbv.capacity - rbv.size + i - 1)
                                  % rbv.capacity])]

\* The last n elements of sequence s.
LastN(s, n) == SubSeq(s, Len(s) - n + 1, Len(s))

\* C1: Size() never exceeds the capacity C, and after C+k Adds (k > 0) with no
\* Clear in between the buffer holds exactly the C most recently added
\* transitions, the oldest k having been overwritten.
C1_WrapAround ==
    /\ Size(rb) <= rb.capacity
    /\ Len(added) > rb.capacity =>
         /\ Size(rb) = rb.capacity
         /\ Stored(heap, rb) = LastN(added, rb.capacity)

\* C1's case: a buffer of capacity 2 or more that has wrapped around, the
\* transition overwritten last differing from the one that replaced it.
C1_Witness ==
    /\ lastOp.op = "Add"
    /\ rb.capacity >= 2
    /\ Len(added) > rb.capacity
    /\ added[Len(added) - rb.capacity] # added[Len(added)]

\* C2: Sample(n) returns exactly min(n, Size()) transitions, read from pairwise
\* distinct slots among the Size() valid slots.
C2_SampleDistinct ==
    lastOp.op = "Sample" =>
        /\ Len(batch) = Min(lastOp.n, Size(rb))
        /\ Len(indices) = Len(batch)
        /\ \A i \in 1..Len(batch) :
              /\ indices[i] \in 0..(Size(rb) - 1)
              /\ batch[i] = rb.buffer[indices[i]]
        /\ \A i, j \in 1..Len(batch) : indices[i] = indices[j] => i = j

\* C2's case: a Sample that asks for more than the buffer holds, and gets all
\* of its two or more transitions.
C2_Witness ==
    /\ lastOp.op = "Sample"
    /\ lastOp.n > Size(rb)
    /\ Size(rb) >= 2
    /\ Len(batch) = Size(rb)

-----------------------------------------------------------------------------
(* The exploration rate driven alone: DecayEpsilon, SetEpsilon, SetState.  *)

\* The values a driver sets epsilon to: 0 (playback), 0.005, 0.5 and 1.
EpsilonChoices == {0, Fixed(1, 200), Fixed(1, 2), Fixed(1, 1)}

\* The checkpoints a driver restores.
AgentStates == [Epsilon : EpsilonChoices, StepCount : {0, 6}]

\* The weights xavierInit draws for the three layers.
InitWeights ==
    { [W1 |-> << <<2>> >>, W2 |-> << <<1>> >>,  W3 |-> << <<1, 2, -1>> >>],
      [W1 |-> << <<1>> >>, W2 |-> << <<-1>> >>, W3 |-> << <<-1, 1, 2>> >>] }

\* The target update intervals the agent is configured with.
TargetUpdateChoices == {6, 8}

\* The state NewDQNAgent returns.
InitAgent ==
    \E tu \in TargetUpdateChoices : \E init \in InitWeights :
        \E a \in {NewDQNAgent(TrainingConfig(tu), init)} :
            /\ heap = a.heap
            /\ rb = a.ReplayBuffer
            /\ batch = <<>>
            /\ indices = <<>>
            /\ added = <<>>
            /\ agent = a.fields
            /\ policyNet = a.PolicyNet
            /\ targetNet = a.TargetNet
            /\ decays = 0
            /\ last = NoLast
            /\ lastOp = Op("NewDQNAgent", 0)
            /\ disk = NoFile
            /\ caller = ZeroExperience
            /\ game = NoGame
            /\ snake = NoSnake
            /\ twin = NoTwin
            /\ trains = 0
            /\ renderer = NoRenderer

\* agent.DecayEpsilon(); lastOp keeps the value of epsilon before the call.
DoDecayEpsilon ==
    /\ decays < MaxDecays
    /\ agent' = DecayEpsilon(agent)
    /\ decays' = IF decays >= 0 THEN decays + 1 ELSE decays
    /\ lastOp' = Op("DecayEpsilon", agent.Epsilon)
    /\ UNCHANGED bufferVars
    /\ UNCHANGED netVars
    /\ UNCHANGED envVars

\* agent.SetEpsilon(eps).
DoSetEpsilon ==
    /\ \E eps \in EpsilonChoices :
         /\ agent' = SetEpsilon(agent, eps)
         /\ lastOp' = Op("SetEpsilon", eps)
    /\ decays' = -1
    /\ UNCHANGED bufferVars
    /\ UNCHANGED netVars
    /\ UNCHANGED envVars

\* agent.SetState(state).
DoSetState ==
    /\ \E state \in AgentStates :
         /\ agent' = SetState(agent, state)
         /\ lastOp' = Op("SetState", state.Epsilon)
    /\ decays' = -1
    /\ UNCHANGED bufferVars
    /\ UNCHANGED netVars
    /\ UNCHANGED envVars

NextEpsilon == DoDecayEpsilon \/ DoSetEpsilon \/ DoSetState

SpecEpsilon == InitAgent /\ [][NextEpsilon]_vars

-----------------------------------------------------------------------------
(* Properties of the exploration rate.                                     *)

Max2(a, b) == IF a > b THEN a ELSE b

\* C9 as claimed: DecayEpsilon never increases epsilon, in any reachable state.
C9_Original ==
    lastOp.op = "DecayEpsilon" => agent.Epsilon <= lastOp.n

\* C9, amended: DecayEpsilon does not increase an epsilon that is at least
\* EpsilonMin before the call; an epsilon below EpsilonMin (as SetEpsilon(0)
\* leaves it) it raises to EpsilonMin.
C9_NonIncreasingAboveMin ==
    lastOp.op = "DecayEpsilon" =>
        /\ lastOp.n >= agent.EpsilonMin => agent.Epsilon <= lastOp.n
        /\ lastOp.n < agent.EpsilonMin => agent.Epsilon = agent.EpsilonMin

\* C9's case: a DecayEpsilon that lowered an epsilon SetEpsilon had set.
C9_Witness ==
    /\ lastOp.op = "DecayEpsilon"
    /\ decays = -1
    /\ lastOp.n > agent.EpsilonMin
    /\ agent.Epsilon < lastOp.n

\* C10: after DecayEpsilon epsilon is max(EpsilonMin, previous * EpsilonDecay),
\* so never below EpsilonMin; from EpsilonStart = 1.0 the 919th call is the
\* first to reach EpsilonMin (a value <= 0.011), and epsilon then stays there.
C10_DecayToMin ==
    /\ lastOp.op = "DecayEpsilon" =>
         /\ agent.Epsilon =
              Max2(agent.EpsilonMin,
                   MulFrac(lastOp.n, EpsilonDecayNum, EpsilonDecayDen))
         /\ agent.Epsilon >= agent.EpsilonMin
    /\ decays >= 919 =>
         /\ agent.Epsilon = agent.EpsilonMin
         /\ agent.Epsilon <= Fixed(11, 1000)
    /\ (decays >= 0 /\ decays < 919) => agent.Epsilon > agent.EpsilonMin

\* C10's case: the calls after the 919th, epsilon resting at EpsilonMin.
C10_Witness ==
    /\ lastOp.op = "DecayEpsilon"
    /\ decays > 919
    /\ lastOp.n = agent.EpsilonMin
    /\ agent.Epsilon = agent.EpsilonMin

-----------------------------------------------------------------------------
(* The agent driven by a training driver: Remember, Train,                 *)
(* UpdateTargetNetwork and Load.                                           *)

Abs(x) == IF x < 0 THEN -x ELSE x

\* The arrays at the addresses as hold no value beyond MaxWeight.
Bounded(h, as) == \A a \in as : \A j \in 1..Len(h[a]) : Abs(h[a][j]) <= MaxWeight

\* DQNAgent.Remember: Add of the Experience made of the arguments.
Remember(h, rbv, state, action, reward, nextState, done, used) ==
    Add(h, rbv, [State |-> state, Action |-> action, Reward |-> reward,
                 NextState |-> nextState, Done |-> done], used)

\* agent.Remember(...) with the state and next state of transition t in fresh
\* arrays of the caller, dropped when Remember returns.
DoRemember ==
    /\ Len(added) < MaxRemember
    /\ \E t \in Transitions :
         \E live \in {NetAddrs(policyNet) \cup NetAddrs(targetNet) \cup LiveAtAdd(rb)} :
         \E c1 \in {NewAddr(live)} :
         \E c2 \in {NewAddr(live \cup {c1})} :
         \E r \in {Remember([heap EXCEPT ![c1] = t.State, ![c2] = t.NextState],
                            rb, c1, t.Action, t.Reward, c2, t.Done,
                            live \cup {c1, c2})} :
             /\ rb' = r.rb
             /\ heap' = Collect(r.heap, NetAddrs(policyNet) \cup NetAddrs(targetNet)
                                          \cup BufferAddrs(r.rb))
             /\ added' = Append(added, t)
    /\ last' = NoLast
    /\ lastOp' = Op("Remember", 0)
    /\ UNCHANGED <<batch, indices, agent, policyNet, targetNet, decays>>
    /\ UNCHANGED envVars

\* agent.Train(); last keeps the state it started from and what it returned.
DoTrain ==
    /\ agent.StepCount < MaxSteps
    /\ \E perm \in Perm(rb.size) :
         \E r \in {Train(heap, agent, policyNet, targetNet, rb, perm)} :
             /\ Bounded(r.heap, NetAddrs(policyNet))
             /\ Abs(r.ret.num) <= MaxWeight * MaxWeight
             /\ heap' = r.heap
             /\ agent' = r.agent
             /\ last' = [pre     |-> [heap |-> heap, agent |-> agent, rb |-> rb,
                                      PolicyNet |-> policyNet, TargetNet |-> targetNet],
                         ret     |-> r.ret,
                         log     |-> r.log,
                         trained |-> r.trained,
                         synced  |-> r.synced]
    /\ lastOp' = Op("Train", 0)
    /\ trains' = trains + 1
    /\ UNCHANGED <<rb, batch, indices, added, policyNet, targetNet, decays>>
    /\ UNCHANGED <<disk, caller, game, snake, twin, renderer>>

\* agent.UpdateTargetNetwork().
DoUpdateTargetNetwork ==
    /\ heap' = UpdateTargetNetwork(heap, policyNet, targetNet)
    /\ last' = NoLast
    /\ lastOp' = Op("UpdateTargetNetwork", 0)
    /\ UNCHANGED <<rb, batch, indices, added, agent, policyNet, targetNet, decays>>
    /\ UNCHANGED envVars

\* agent.Load(path), the file at the path being any of ModelFiles; lastOp keeps
\* 1 for an error, last the file and the state Load started from.  The arrays of the networks a successful Load replaces are
\* garbage when it returns, and their addresses are those the new ones take.
DoLoad ==
    /\ \E file \in ModelFiles :
         \E r \in {Load(heap, BufferAddrs(rb), policyNet, targetNet, file)} :
             /\ policyNet' = r.PolicyNet
             /\ targetNet' = r.TargetNet
             /\ heap' = Collect(r.heap, NetAddrs(r.PolicyNet) \cup NetAddrs(r.TargetNet)
                                          \cup BufferAddrs(rb))
             /\ lastOp' = Op("Load", IF r.err THEN 1 ELSE 0)
             /\ last' = [trained |-> FALSE, file |-> file,
                         decoded |-> LoadNetwork(heap, BufferAddrs(rb), file).decoded,
                         pre |-> [heap |-> heap, agent |-> agent, rb |-> rb,
                                  PolicyNet |-> policyNet, TargetNet |-> targetNet]]
    /\ UNCHANGED <<rb, batch, indices, added, agent, decays>>
    /\ UNCHANGED envVars

NextAgent ==
    \/ DoRemember
    \/ DoTrain
    \/ DoUpdateTargetNetwork
    \/ DoLoad

SpecAgent == InitAgent /\ [][NextAgent]_vars

-----------------------------------------------------------------------------
(* Properties of the agent's training.                                     *)

\* The buffer read by value: its slots with their states, and its counters.
BufferValue(h, rbv) ==
    [buffer   |-> [i \in DOMAIN rbv.buffer |-> ExpValue(h, rbv.buffer[i])],
     capacity |-> rbv.capacity, position |-> rbv.position, size |-> rbv.size]

\* The last operation was a Train call.
AfterTrain == lastOp.op = "Train" /\ last.trained \in BOOLEAN

\* The conditions under which Train goes on to the batch, read in the state
\* the call started from.
EnoughData == Size(last.pre.rb) >= last.pre.agent.BatchSize
OnInterval == (last.pre.agent.StepCount + 1) % TrainInterval = 0

\* The policy network's weights differ from those the call started from.
PolicyChanged ==
    NetValue(heap, policyNet) # NetValue(last.pre.heap, last.pre.PolicyNet)

\* C3: a Train call that finds fewer than BatchSize transitions in the buffer,
\* or whose incremented StepCount is not a multiple of the train interval,
\* still increments StepCount, returns 0 and leaves the weights of the policy
\* network, those of the target network and the contents of the buffer as
\* they were; the policy network changes only in calls that meet both
\* conditions, and those are the calls that train.
C3_TrainNoOp ==
    AfterTrain =>
        /\ agent.StepCount = last.pre.agent.StepCount + 1
        /\ last.trained <=> (EnoughData /\ OnInterval)
        /\ ~(EnoughData /\ OnInterval) =>
              /\ last.ret.num = 0
              /\ NetValue(heap, policyNet) = NetValue(last.pre.heap, last.pre.PolicyNet)
              /\ NetValue(heap, targetNet) = NetValue(last.pre.heap, last.pre.TargetNet)
              /\ BufferValue(heap, rb) = BufferValue(last.pre.heap, last.pre.rb)
        /\ PolicyChanged => (EnoughData /\ OnInterval)

\* C3's case: the fourth Train call, on a step of the train interval, finds
\* too few transitions in the buffer and returns 0.
C3_Witness ==
    /\ AfterTrain
    /\ OnInterval
    /\ ~EnoughData
    /\ last.ret.num = 0
    /\ agent.StepCount = 4

\* C4 as stated: a Train call that brings StepCount to a multiple of
\* TargetUpdate returns with the target network equal to the policy network.
C4_Original ==
    (AfterTrain /\ agent.StepCount % agent.TargetUpdate = 0) =>
        NetValue(heap, targetNet) = NetValue(heap, policyNet)

\* C5: the TD target of every transition trained on is the reward when the
\* transition is terminal, and otherwise the reward plus gamma times the
\* largest output, for the next state, of the target network with the weights
\* it had when Train was called, whatever the policy network has become.
C5_TDTarget ==
    AfterTrain =>
        \A i \in 1..Len(last.log) :
            LET e == last.log[i].exp
            IN  last.log[i].targetQ =
                    IF e.Done THEN e.Reward
                    ELSE e.Reward
                         + MulFrac(Max(Forward(last.pre.heap, last.pre.TargetNet,
                                               e.NextState)),
                                   GammaNum, GammaDen)

\* C5's case: a batch with a terminal and a non-terminal transition, the policy
\* and the target network giving the next state different largest outputs.
C5_Witness ==
    /\ AfterTrain
    /\ last.trained
    /\ \E i \in 1..Len(last.log) : last.log[i].exp.Done
    /\ \E i \in 1..Len(last.log) :
          /\ ~last.log[i].exp.Done
          /\ Max(Forward(last.log[i].heap, last.pre.PolicyNet, last.log[i].exp.NextState))
                # Max(Forward(last.pre.heap, last.pre.TargetNet, last.log[i].exp.NextState))

\* The TD error of the i-th transition of the batch: the policy network's
\* output for the action taken, from the weights it had just before that
\* transition's Backward pass, minus the TD target.
TDError(i) ==
    LET l == last.log[i]
    IN  Forward(l.heap, last.pre.PolicyNet, l.exp.State)[l.exp.Action + 1] - l.targetQ

\* The sum over the batch of the squared TD errors.
SumSquaredTDError ==
    SumTo([i \in 1..Len(last.log) |-> TDError(i) * TDError(i)], Len(last.log))

\* C6 as stated: the value a training call returns is the mean over the batch
\* of the squared TD errors.
C6_Original ==
    (AfterTrain /\ last.trained) =>
        last.ret.num * Len(last.log) = last.ret.den * SumSquaredTDError

\* C6: the value a training call returns is the mean over the batch of half
\* the squared TD error, each error taken from the policy output before that
\* transition's weight update, the first from the weights Train started from.
C6_HalfMeanSquaredError ==
    (AfterTrain /\ last.trained) =>
        /\ Len(last.log) = Min(last.pre.agent.BatchSize, Size(last.pre.rb))
        /\ last.log[1].heap = last.pre.heap
        /\ \A i \in 1..Len(last.log) : last.log[i].currentQ - last.log[i].targetQ = TDError(i)
        /\ last.ret.num * 2 * Len(last.log) = last.ret.den * SumSquaredTDError

\* C6's case: a batch of two with a loss that is not 0, the first update having
\* changed the policy output the second error is taken from.
C6_Witness ==
    /\ AfterTrain
    /\ last.trained
    /\ Len(last.log) = 2
    /\ SumSquaredTDError > 0
    /\ Forward(last.pre.heap, last.pre.PolicyNet, last.log[2].exp.State)
          # Forward(last.log[2].heap, last.pre.PolicyNet, last.log[2].exp.State)

\* The inputs, actions and targets of the Backward passes C7 is checked for.
ProbeInputs == {<<0>>, <<1>>}
ProbeTargets == {-1, 2}

\* C7: in every state of the agent the policy and the target network have no
\* array in common; a Backward pass on the policy network, whatever its input,
\* action and target, leaves the weights and biases of the target network, and
\* so its outputs, as they were, and so does a Train call that does not reach
\* a target update, throughout its batch.
C7_NoSharedStorage ==
    /\ NetAddrs(policyNet) \cap NetAddrs(targetNet) = {}
    /\ \A input \in ProbeInputs : \A action \in 0..(policyNet.OutputSize - 1) :
       \A targetQ \in ProbeTargets :
          LET fwd == ForwardWithCache(heap, policyNet, input)
              hb  == Backward(heap, policyNet, fwd.cache, fwd.output, action, targetQ)
          IN  NetValue(hb, targetNet) = NetValue(heap, targetNet)
    /\ AfterTrain =>
          /\ \A i \in 1..Len(last.log) :
                NetValue(last.log[i].heap, last.pre.TargetNet)
                    = NetValue(last.pre.heap, last.pre.TargetNet)
          /\ ~last.synced =>
                NetValue(heap, targetNet) = NetValue(last.pre.heap, last.pre.TargetNet)

\* C7's case: a Train call that changed the policy network and reached no
\* target update, the two networks differing when it returns.
C7_Witness ==
    /\ AfterTrain
    /\ last.trained
    /\ ~last.synced
    /\ PolicyChanged
    /\ NetValue(heap, targetNet) # NetValue(heap, policyNet)

-----------------------------------------------------------------------------
(* Two networks of one architecture, n in policyNet and other in           *)
(* targetNet, driven directly: Clone, CopyFrom and Backward on either.     *)
(* lastOp keeps which of the two received the operation (1 for policyNet,  *)
(* 2 for targetNet); last keeps the state the operation started from, the  *)
(* operation before it, the number of Backward passes so far, and the      *)
(* arguments of a Backward pass (call).                                    *)

\* Two networks from NewQNetwork, each with weights of its own.
InitNetwork ==
    \E init1 \in InitWeights : \E init2 \in InitWeights :
        \E cfg \in {TrainingConfig(1)} :
        \E n \in {NewQNetwork([a \in Addr |-> <<>>], {}, cfg.InputSize, cfg.HiddenSize1,
                               cfg.HiddenSize2, cfg.OutputSize, cfg.LearningRate, init1)} :
        \E o \in {NewQNetwork(n.heap, NetAddrs(n.net), cfg.InputSize, cfg.HiddenSize1,
                               cfg.HiddenSize2, cfg.OutputSize, cfg.LearningRate, init2)} :
            /\ heap = o.heap
            /\ policyNet = n.net
            /\ targetNet = o.net
            /\ last = [pre |-> [heap |-> o.heap, PolicyNet |-> n.net, TargetNet |-> o.net,
                                lastOp |-> Op("NewQNetwork", 0)],
                       backwards |-> 0]
            /\ lastOp = Op("NewQNetwork", 0)
    /\ rb = NewReplayBuffer(1)
    /\ batch = <<>>
    /\ indices = <<>>
    /\ added = <<>>
    /\ agent = NoAgent
    /\ decays = 0
    /\ disk = NoFile
    /\ caller = ZeroExperience
    /\ game = NoGame
    /\ snake = NoSnake
    /\ twin = NoTwin
    /\ trains = 0
    /\ renderer = NoRenderer

\* What last keeps of the state an operation starts from.
Snapshot ==
    [heap |-> heap, PolicyNet |-> policyNet, TargetNet |-> targetNet, lastOp |-> lastOp]

\* targetNet = policyNet.Clone(), or policyNet = targetNet.Clone(): the arrays
\* of the network replaced are garbage, and the clone's take their addresses.
DoClone ==
    /\ \/ \E c \in {Clone(heap, NetAddrs(policyNet), policyNet)} :
              /\ targetNet' = c.net
              /\ heap' = Collect(c.heap, NetAddrs(policyNet) \cup NetAddrs(c.net))
              /\ lastOp' = Op("Clone", 2)
              /\ UNCHANGED policyNet
       \/ \E c \in {Clone(heap, NetAddrs(targetNet), targetNet)} :
              /\ policyNet' = c.net
              /\ heap' = Collect(c.heap, NetAddrs(targetNet) \cup NetAddrs(c.net))
              /\ lastOp' = Op("Clone", 1)
              /\ UNCHANGED targetNet
    /\ last' = [pre |-> Snapshot, backwards |-> last.backwards]
    /\ UNCHANGED <<rb, batch, indices, added, agent, decays>>
    /\ UNCHANGED envVars

\* targetNet.CopyFrom(policyNet), or policyNet.CopyFrom(targetNet).
DoCopyFrom ==
    /\ \/ /\ heap' = CopyFrom(heap, targetNet, policyNet)
          /\ lastOp' = Op("CopyFrom", 2)
       \/ /\ heap' = CopyFrom(heap, policyNet, targetNet)
          /\ lastOp' = Op("CopyFrom", 1)
    /\ last' = [pre |-> Snapshot, backwards |-> last.backwards]
    /\ UNCHANGED <<rb, batch, indices, added, agent, policyNet, targetNet, decays>>
    /\ UNCHANGED envVars

\* A ForwardWithCache and Backward pass on one of the two networks.
DoBackward ==
    /\ last.backwards < MaxBackward
    /\ \E which \in {1, 2} : \E input \in ProbeInputs :
       \E action \in 0..(policyNet.OutputSize - 1) : \E targetQ \in ProbeTargets :
          \E n \in {IF which = 1 THEN policyNet ELSE targetNet} :
          \E fwd \in {ForwardWithCache(heap, n, input)} :
          \E hb \in {Backward(heap, n, fwd.cache, fwd.output, action, targetQ)} :
              /\ Bounded(hb, NetAddrs(n))
              /\ heap' = hb
              /\ lastOp' = Op("Backward", which)
              /\ last' = [pre |-> Snapshot, backwards |-> last.backwards + 1,
                          call |-> [input |-> input, action |-> action,
                                    targetQ |-> targetQ]]
    /\ UNCHANGED <<rb, batch, indices, added, agent, policyNet, targetNet, decays>>
    /\ UNCHANGED envVars

NextNetwork ==
    \/ DoClone
    \/ DoCopyFrom
    \/ DoBackward

SpecNetwork == InitNetwork /\ [][NextNetwork]_vars

-----------------------------------------------------------------------------
(* Properties of Clone and CopyFrom.                                       *)

\* The network the last operation wrote (the clone, the receiver of CopyFrom,
\* the network Backward updated) and the other one, now and before.
Written == IF lastOp.n = 1 THEN policyNet ELSE targetNet
Other == IF lastOp.n = 1 THEN targetNet ELSE policyNet
OtherBefore == IF lastOp.n = 1 THEN last.pre.TargetNet ELSE last.pre.PolicyNet

-----------------------------------------------------------------------------
(* Action selection: the agent driven by a player that sets epsilon, loads *)
(* models and asks for actions.  last keeps the state the selection        *)
(* started from, the input, the action returned, and of the latest         *)
(* SelectActionGreedy call (call) and of the one before it (prev) the      *)
(* weights, input, epsilon and action.                                     *)

\* The values a.rng.Float64() returns, in units of 10^-9: the least, the
\* greatest and two between.
FloatDraws == {0, Fixed(1, 200), Fixed(1, 2), EpsUnit - 1}

\* No SelectActionGreedy call was made yet.
NoCall == [made |-> FALSE]

\* The latest SelectActionGreedy call, if there was one since the last Load.
LastCall == IF "call" \in DOMAIN last THEN last.call ELSE NoCall

\* What last keeps of a selection: the state before, input and action.
Selection(state, action, prev, call) ==
    [trained |-> FALSE,
     pre     |-> [heap |-> heap, agent |-> agent, rb |-> rb,
                  PolicyNet |-> policyNet, TargetNet |-> targetNet],
     state   |-> state,
     action  |-> action,
     prev    |-> prev,
     call    |-> call]

\* agent.SelectAction(state); lastOp keeps the value Float64() returned.
DoSelectAction ==
    /\ agent.rng < MaxDraws
    /\ \E state \in ProbeInputs : \E u \in FloatDraws : \E k \in 0..(NumActions - 1) :
       \E r \in {SelectAction(heap, agent, policyNet, state, u, k)} :
          /\ agent' = r.agent
          /\ last' = Selection(state, r.action, NoCall, LastCall)
          /\ lastOp' = Op("SelectAction", u)
    /\ UNCHANGED <<heap, rb, batch, indices, added, policyNet, targetNet, decays>>
    /\ UNCHANGED envVars

\* agent.SelectActionGreedy(state).
DoSelectActionGreedy ==
    /\ \E state \in ProbeInputs :
       \E r \in {SelectActionGreedy(heap, agent, policyNet, state)} :
          /\ agent' = r.agent
          /\ last' = Selection(state, r.action, LastCall,
                               [made    |-> TRUE,
                                weights |-> NetValue(heap, policyNet),
                                state   |-> state,
                                epsilon |-> agent.Epsilon,
                                action  |-> r.action])
          /\ lastOp' = Op("SelectActionGreedy", 0)
    /\ UNCHANGED <<heap, rb, batch, indices, added, policyNet, targetNet, decays>>
    /\ UNCHANGED envVars

NextSelect ==
    \/ DoSelectAction
    \/ DoSelectActionGreedy
    \/ DoSetEpsilon
    \/ DoLoad

SpecSelect == InitAgent /\ [][NextSelect]_vars

-----------------------------------------------------------------------------
(* Properties of action selection.                                         *)

\* The state a selection started from is the state it returned in, but for
\* the fields of the agent.
SelectionFrame ==
    /\ heap = last.pre.heap
    /\ policyNet = last.pre.PolicyNet
    /\ targetNet = last.pre.TargetNet
    /\ rb = last.pre.rb

\* C11: with epsilon 0, SelectAction returns, whatever Float64() returns, the
\* action SelectActionGreedy returns for the state: the index of the largest
\* output of the policy network.
C11_NoExplorationAtZero ==
    (lastOp.op = "SelectAction" /\ last.pre.agent.Epsilon = 0) =>
        /\ last.action = SelectActionGreedy(last.pre.heap, last.pre.agent,
                                            last.pre.PolicyNet, last.state).action
        /\ last.action = MaxIndex(Forward(last.pre.heap, last.pre.PolicyNet, last.state))
        /\ SelectionFrame

\* C11's case: epsilon 0 and Float64() returning 0, its least value.
C11_Witness ==
    /\ lastOp.op = "SelectAction"
    /\ last.pre.agent.Epsilon = 0
    /\ agent.Epsilon = 0
    /\ lastOp.n = 0
    /\ last.action = MaxIndex(Forward(heap, policyNet, last.state))

\* C12: SelectActionGreedy returns the index of the largest output of the
\* policy network for the state, the same as the call before it returned if
\* that had the same weights and state, whatever epsilon was then; it leaves
\* the networks, the buffer and every field of the agent, the count of values
\* drawn from its rng among them, as they were.
C12_GreedyPure ==
    lastOp.op = "SelectActionGreedy" =>
        /\ last.action = MaxIndex(Forward(heap, policyNet, last.state))
        /\ SelectionFrame
        /\ agent = last.pre.agent
        /\ (/\ last.prev.made
            /\ last.prev.weights = NetValue(heap, policyNet)
            /\ last.prev.state = last.state) => last.prev.action = last.action

\* C12's case: two SelectActionGreedy calls with the same weights and state,
\* epsilon set to another value between them, and the count of values drawn
\* from the rng not 0.
C12_Witness ==
    /\ lastOp.op = "SelectActionGreedy"
    /\ last.prev.made
    /\ last.prev.weights = NetValue(heap, policyNet)
    /\ last.prev.state = last.state
    /\ last.prev.epsilon # agent.Epsilon
    /\ agent.rng > 0

-----------------------------------------------------------------------------
(* MaxIndex applied to vectors of Q-values; last keeps the vector and,     *)
(* once MaxIndex was called, the index returned.                           *)

\* The non-empty vectors of Q-values.
QVectors == UNION {[1..n -> (-MaxQ)..MaxQ] : n \in 1..MaxVector}

InitMax ==
    /\ last \in [values : QVectors, called : {FALSE}, index : {0}]
    /\ lastOp = Op("values", 0)
    /\ heap = [a \in Addr |-> <<>>]
    /\ rb = NewReplayBuffer(1)
    /\ batch = <<>>
    /\ indices = <<>>
    /\ added = <<>>
    /\ agent = NoAgent
    /\ policyNet = NoNet
    /\ targetNet = NoNet
    /\ decays = 0
    /\ disk = NoFile
    /\ caller = ZeroExperience
    /\ game = NoGame
    /\ snake = NoSnake
    /\ twin = NoTwin
    /\ trains = 0
    /\ renderer = NoRenderer

\* MaxIndex(values).
DoMaxIndex ==
    /\ ~last.called
    /\ last' = [last EXCEPT !.called = TRUE, !.index = MaxIndex(last.values)]
    /\ lastOp' = Op("MaxIndex", 0)
    /\ UNCHANGED <<heap, rb, batch, indices, added, agent, policyNet, targetNet, decays>>
    /\ UNCHANGED envVars

NextMax == DoMaxIndex

SpecMax == InitMax /\ [][NextMax]_vars

\* C13: the index MaxIndex returns (counting from 0) is the smallest index at
\* which the vector has its largest value.
C13_LowestIndexOfMax ==
    last.called =>
        LET v == last.values
            m == last.index + 1
        IN  /\ m \in 1..Len(v)
            /\ \A j \in 1..Len(v) : v[j] <= v[m]
            /\ \A j \in 1..(m - 1) : v[j] < v[m]

\* C13's case: the largest value at two indices, neither the first, and the
\* first of the two returned.
C13_Witness ==
    /\ last.called
    /\ Len(last.values) = 3
    /\ last.index = 1
    /\ last.values[2] = last.values[3]
    /\ last.values[1] < last.values[2]

-----------------------------------------------------------------------------
(* Persistence of an agent, under SpecAgent.                               *)

\* The network LoadNetwork returns for the file the last Load read, by value.
Loaded ==
    LET l == LoadNetwork(last.pre.heap, BufferAddrs(last.pre.rb), last.file)
    IN  NetValue(l.heap, l.net)

\* C14: after a successful Load the policy network is the network loaded from
\* the file, the target network has the values of the policy network, and the
\* two share no array, whatever the target network was before.
C14_LoadResetsTarget ==
    lastOp = Op("Load", 0) =>
        /\ NetValue(heap, policyNet) = Loaded
        /\ NetValue(heap, targetNet) = NetValue(heap, policyNet)
        /\ NetAddrs(policyNet) \cap NetAddrs(targetNet) = {}

\* A successful Load by an agent whose target network differed from its policy
\* network and from the network in the file.
C14_Witness ==
    /\ lastOp = Op("Load", 0)
    /\ NetValue(last.pre.heap, last.pre.TargetNet)
           # NetValue(last.pre.heap, last.pre.PolicyNet)
    /\ NetValue(last.pre.heap, last.pre.TargetNet) # Loaded
    /\ NetValue(heap, targetNet) = Loaded

\* C15: when the file is missing or decodes in neither layout, LoadNetwork
\* returns an error and no network after at most one attempt at each layout,
\* Load returns the error, and PolicyNet and TargetNet are the networks they
\* were, with the values they had.
C15_LoadFailureKeepsNetworks ==
    (lastOp.op = "Load" /\ (last.file.kind = "missing"
                              \/ (Decode(last.file, "NetworkWeights").err
                                    /\ Decode(last.file, "legacyNetworkWeights").err))) =>
        /\ lastOp.n = 1
        /\ LoadNetwork(last.pre.heap, BufferAddrs(last.pre.rb), last.file).err
        /\ LoadNetwork(last.pre.heap, BufferAddrs(last.pre.rb), last.file).net = NoNet
        /\ Len(last.decoded) <= 2
        /\ \A i, j \in 1..Len(last.decoded) : i # j => last.decoded[i] # last.decoded[j]
        /\ policyNet = last.pre.PolicyNet
        /\ targetNet = last.pre.TargetNet
        /\ NetValue(heap, policyNet) = NetValue(last.pre.heap, last.pre.PolicyNet)
        /\ NetValue(heap, targetNet) = NetValue(last.pre.heap, last.pre.TargetNet)

\* A failed Load of a file that is no gob stream, by an agent that had trained
\* its policy network away from its target network.
C15_Witness ==
    /\ lastOp = Op("Load", 1)
    /\ last.file.kind = "garbage"
    /\ last.decoded = <<"NetworkWeights", "legacyNetworkWeights">>
    /\ NetValue(heap, policyNet) # NetValue(heap, targetNet)
    /\ policyNet = last.pre.PolicyNet

\* A failed Load of a missing file.
C15_WitnessMissing ==
    /\ lastOp = Op("Load", 1)
    /\ last.file.kind = "missing"
    /\ last.decoded = <<>>

\* C17: Load of a file of the legacy layout succeeds, the policy network has
\* the dimensions, the learning rate and the weight matrices stored in the
\* file and the biases stored in B1Vec, B2Vec and B3Vec, and the legacy layout
\* is decoded only after the decode of the current layout has failed; a file
\* the current layout decodes is not decoded a second time.
C17_LegacyUpgraded ==
    (lastOp.op = "Load" /\ last.file.kind = "gob") =>
        IF last.file.layout = "legacyNetworkWeights"
        THEN /\ lastOp.n = 0
             /\ Decode(last.file, "NetworkWeights").err
             /\ last.decoded = <<"NetworkWeights", "legacyNetworkWeights">>
             /\ NetValue(heap, policyNet) =
                    [W1 |-> last.file.fields.W1, B1 |-> last.file.fields.B1Vec,
                     W2 |-> last.file.fields.W2, B2 |-> last.file.fields.B2Vec,
                     W3 |-> last.file.fields.W3, B3 |-> last.file.fields.B3Vec,
                     InputSize |-> last.file.fields.InputSize,
                     HiddenSize1 |-> last.file.fields.HiddenSize1,
                     HiddenSize2 |-> last.file.fields.HiddenSize2,
                     OutputSize |-> last.file.fields.OutputSize,
                     LearningRate |-> last.file.fields.LearningRate]
        ELSE /\ lastOp.n = 0
             /\ last.decoded = <<"NetworkWeights">>

\* A Load of the legacy file by an agent whose policy network had other
\* biases than those of the file, which come out of the load with the target.
C17_Witness ==
    /\ lastOp = Op("Load", 0)
    /\ last.file.layout = "legacyNetworkWeights"
    /\ "B1" \notin DOMAIN last.file.fields
    /\ Deref(last.pre.heap, last.pre.PolicyNet.B3) # last.file.fields.B3Vec
    /\ Deref(heap, policyNet.B3) = last.file.fields.B3Vec
    /\ Deref(heap, targetNet.B2) = last.file.fields.B2Vec

-----------------------------------------------------------------------------
(* A network saved and loaded: n in policyNet, the network LoadNetwork     *)
(* returned last in targetNet (NoNet before the first), the file at the    *)
(* path in disk.  A driver trains n, saves n or the loaded network, and    *)
(* loads the file.  last keeps the value of the network the file was       *)
(* written from (saved), the value n had when the chain of saves and loads *)
(* the file comes from began (origin), the saves of a loaded network in    *)
(* that chain (rounds), the origin and rounds of the file the loaded       *)
(* network was read from (loaded), and the Backward passes so far.         *)

\* The learning rates a network is made with.
LearningRates == {0, 1}

\* The dimensions and the weights xavierInit draws for them: the networks of
\* the agent, and one without inputs.
PersistNetworks ==
    {[InputSize |-> 1, HiddenSize1 |-> 1, HiddenSize2 |-> 1, OutputSize |-> 3,
      init |-> i] : i \in InitWeights}
    \cup {[InputSize |-> 0, HiddenSize1 |-> 1, HiddenSize2 |-> 2, OutputSize |-> 1,
           init |-> [W1 |-> <<>>, W2 |-> << <<1, -1>> >>, W3 |-> << <<2>>, <<0>> >>]]}

InitPersist ==
    /\ \E c \in PersistNetworks : \E lr \in LearningRates :
        \E n \in {NewQNetwork([a \in Addr |-> <<>>], {}, c.InputSize, c.HiddenSize1,
                               c.HiddenSize2, c.OutputSize, lr, c.init)} :
            /\ heap = n.heap
            /\ policyNet = n.net
    /\ targetNet = NoNet
    /\ disk = NoFile
    /\ last = [saved |-> NoNet, origin |-> NoNet, rounds |-> 0,
               loaded |-> [origin |-> NoNet, rounds |-> 0], backwards |-> 0]
    /\ lastOp = Op("NewQNetwork", 0)
    /\ rb = NewReplayBuffer(1)
    /\ batch = <<>>
    /\ indices = <<>>
    /\ added = <<>>
    /\ agent = NoAgent
    /\ decays = 0
    /\ caller = ZeroExperience
    /\ game = NoGame
    /\ snake = NoSnake
    /\ twin = NoTwin
    /\ trains = 0
    /\ renderer = NoRenderer

\* The inputs of the width of the network n.
InputsOf(n) == {x \in ProbeInputs \cup {<<>>} : Len(x) = n.InputSize}

\* A ForwardWithCache and Backward pass on n.
DoTrainSaved ==
    /\ last.backwards < MaxBackward
    /\ \E input \in InputsOf(policyNet) :
       \E action \in 0..(policyNet.OutputSize - 1) : \E targetQ \in ProbeTargets :
          \E fwd \in {ForwardWithCache(heap, policyNet, input)} :
          \E hb \in {Backward(heap, policyNet, fwd.cache, fwd.output, action, targetQ)} :
              /\ Bounded(hb, NetAddrs(policyNet))
              /\ heap' = hb
    /\ lastOp' = Op("Backward", 1)
    /\ last' = [last EXCEPT !.backwards = last.backwards + 1]
    /\ UNCHANGED <<rb, batch, indices, added, agent, policyNet, targetNet, decays>>
    /\ UNCHANGED envVars

\* n.Save(path), or loaded.Save(path) for the network LoadNetwork returned;
\* os.Create fails (lastOp keeps 1, no file is written) or the file is
\* written.
DoSave ==
    /\ \/ /\ UNCHANGED <<disk, last>>
          /\ lastOp' = Op("Save", 1)
       \/ /\ disk' = Save(heap, policyNet)
          /\ last' = [last EXCEPT !.saved = NetValue(heap, policyNet),
                                  !.origin = NetValue(heap, policyNet),
                                  !.rounds = 0]
          /\ lastOp' = Op("Save", 0)
       \/ /\ targetNet # NoNet
          /\ last.loaded.rounds < MaxRounds
          /\ disk' = Save(heap, targetNet)
          /\ last' = [last EXCEPT !.saved = NetValue(heap, targetNet),
                                  !.origin = last.loaded.origin,
                                  !.rounds = last.loaded.rounds + 1]
          /\ lastOp' = Op("Save", 0)
    /\ UNCHANGED <<heap, rb, batch, indices, added, agent, policyNet, targetNet, decays,
                   caller, game, snake, twin, trains, renderer>>

\* loaded, err = LoadNetwork(path): lastOp keeps 1 for an error.  The arrays
\* of the network loaded before are garbage once loaded is assigned.
DoLoadNetwork ==
    /\ \E l \in {LoadNetwork(heap, NetAddrs(policyNet) \cup NetAddrs(targetNet), disk)} :
          /\ targetNet' = l.net
          /\ heap' = Collect(l.heap, NetAddrs(policyNet) \cup NetAddrs(l.net))
          /\ lastOp' = Op("LoadNetwork", IF l.err THEN 1 ELSE 0)
          /\ last' = [last EXCEPT !.loaded =
                          IF l.err THEN [origin |-> NoNet, rounds |-> 0]
                          ELSE [origin |-> last.origin, rounds |-> last.rounds]]
    /\ UNCHANGED <<rb, batch, indices, added, agent, policyNet, decays>>
    /\ UNCHANGED envVars

NextPersist ==
    \/ DoTrainSaved
    \/ DoSave
    \/ DoLoadNetwork

SpecPersist == InitPersist /\ [][NextPersist]_vars

\* C16: the network LoadNetwork returns for a file Save wrote has the
\* dimensions, the learning rate, the weight matrices and the bias vectors of
\* the network saved, and after any number of saves of the loaded network and
\* loads of the file it still has those of the network the first file was
\* written from.
C16_SaveLoadRoundTrip ==
    (lastOp.op = "LoadNetwork" /\ disk # NoFile) =>
        /\ lastOp.n = 0
        /\ NetValue(heap, targetNet) = last.saved
        /\ NetValue(heap, targetNet) = last.origin

\* The last load of the longest chain, of a network saved after one Backward
\* pass, n having been trained further since.
C16_Witness ==
    /\ lastOp = Op("LoadNetwork", 0)
    /\ last.rounds = MaxRounds
    /\ last.backwards = 2
    /\ \E j \in 1..Len(last.origin.B3) : last.origin.B3[j] # 0
    /\ NetValue(heap, policyNet) # last.origin

\* A load of the file written from the network without inputs and with the
\* learning rate 0: gob sends none of W1, InputSize and LearningRate.
C16_WitnessNoInputs ==
    /\ lastOp = Op("LoadNetwork", 0)
    /\ {"W1", "InputSize", "LearningRate"} \cap DOMAIN disk.fields = {}
    /\ NetValue(heap, targetNet).InputSize = 0

-----------------------------------------------------------------------------
(* Networks of any dimensions and inputs of any length: a driver calls     *)
(* NewQNetwork with four dimensions and then Forward or ForwardWithCache   *)
(* on the network returned (policyNet; NoNet when the constructor          *)
(* panicked).  last keeps the arguments and the outcome of the last call,  *)
(* lastOp 1 when it panicked.                                              *)

\* The dimensions a driver passes: negative, zero and positive ones.
DimChoices == (-1)..MaxDim

\* The inputs a driver passes: every vector of 0 and 1 up to one element
\* longer than the widest input layer.
ShapeInputs == UNION {[1..n -> {0, 1}] : n \in 0..(MaxDim + 1)}

\* The weights xavierInit(fanIn, fanOut, rng) returns: fanIn rows of fanOut
\* values.  The values the seeded rng draws are 1 and 2 in turn.
xavierInit(fanIn, fanOut) ==
    Floats([i \in 1..fanIn |-> Floats([j \in 1..fanOut |-> 1 + ((i + j) % 2)], fanOut)],
           fanIn)

\* make([]T, n) panics for a negative n; NewQNetwork makes slices of each of
\* its four dimensions.
NewQNetworkPanics(inputSize, hiddenSize1, hiddenSize2, outputSize) ==
    inputSize < 0 \/ hiddenSize1 < 0 \/ hiddenSize2 < 0 \/ outputSize < 0

InitShape ==
    /\ heap = [a \in Addr |-> <<>>]
    /\ policyNet = NoNet
    /\ targetNet = NoNet
    /\ last = [dims |-> <<>>, input |-> <<>>, panic |-> FALSE, output |-> <<>>]
    /\ lastOp = Op("main", 0)
    /\ rb = NewReplayBuffer(1)
    /\ batch = <<>>
    /\ indices = <<>>
    /\ added = <<>>
    /\ agent = NoAgent
    /\ decays = 0
    /\ disk = NoFile
    /\ caller = ZeroExperience
    /\ game = NoGame
    /\ snake = NoSnake
    /\ twin = NoTwin
    /\ trains = 0
    /\ renderer = NoRenderer

\* net := NewQNetwork(inputSize, hiddenSize1, hiddenSize2, outputSize, 1, seed).
DoNewQNetwork ==
    /\ \E i \in DimChoices : \E h1 \in DimChoices : \E h2 \in DimChoices :
       \E o \in DimChoices :
          /\ IF NewQNetworkPanics(i, h1, h2, o)
             THEN /\ policyNet' = NoNet
                  /\ heap' = [a \in Addr |-> <<>>]
                  /\ lastOp' = Op("NewQNetwork", 1)
             ELSE \E n \in {NewQNetwork([a \in Addr |-> <<>>], {}, i, h1, h2, o, 1,
                                        [W1 |-> xavierInit(i, h1),
                                         W2 |-> xavierInit(h1, h2),
                                         W3 |-> xavierInit(h2, o)])} :
                      /\ policyNet' = n.net
                      /\ heap' = n.heap
                      /\ lastOp' = Op("NewQNetwork", 0)
          /\ last' = [dims |-> <<i, h1, h2, o>>, input |-> <<>>, panic |-> lastOp'.n = 1,
                      output |-> <<>>]
    /\ UNCHANGED <<rb, batch, indices, added, agent, targetNet, decays>>
    /\ UNCHANGED envVars

\* net.Forward(input).
DoForward ==
    /\ policyNet # NoNet
    /\ \E input \in ShapeInputs : \E r \in {ForwardCall(heap, policyNet, input)} :
          /\ last' = [dims |-> last.dims, input |-> input, panic |-> r.panic,
                      output |-> r.output]
          /\ lastOp' = Op("Forward", IF r.panic THEN 1 ELSE 0)
    /\ UNCHANGED <<heap, rb, batch, indices, added, agent, policyNet, targetNet, decays>>
    /\ UNCHANGED envVars

\* net.ForwardWithCache(input).
DoForwardWithCache ==
    /\ policyNet # NoNet
    /\ \E input \in ShapeInputs : \E r \in {ForwardWithCacheCall(heap, policyNet, input)} :
          /\ last' = [dims |-> last.dims, input |-> input, panic |-> r.panic,
                      output |-> r.output]
          /\ lastOp' = Op("ForwardWithCache", IF r.panic THEN 1 ELSE 0)
    /\ UNCHANGED <<heap, rb, batch, indices, added, agent, policyNet, targetNet, decays>>
    /\ UNCHANGED envVars

NextShape ==
    \/ DoNewQNetwork
    \/ DoForward
    \/ DoForwardWithCache

SpecShape == InitShape /\ [][NextShape]_vars

\* C18: a call of Forward or ForwardWithCache with an input whose length is
\* not the input width of the network fails: it panics and returns no output.
C18_Original ==
    (lastOp.op \in {"Forward", "ForwardWithCache"}
        /\ Len(last.input) # policyNet.InputSize) => last.panic

\* The input a shorter input is treated as: zeros appended up to n elements.
ZeroPadded(input, n) ==
    Floats([i \in 1..n |-> IF i <= Len(input) THEN input[i] ELSE 0], n)

\* What the code does for C18: an input shorter than the input width is
\* accepted and gives the output of the input with zeros appended; a longer
\* one panics unless the first hidden layer is empty.
C18_ShortInputPadded ==
    (lastOp.op \in {"Forward", "ForwardWithCache"}
        /\ Len(last.input) # policyNet.InputSize) =>
        IF Len(last.input) < policyNet.InputSize
        THEN /\ ~last.panic
             /\ last.output = Forward(heap, policyNet,
                                      ZeroPadded(last.input, policyNet.InputSize))
        ELSE last.panic <=> policyNet.HiddenSize1 > 0

\* A Forward of one element on a network of input width 2 that returns an
\* output depending on that element.
C18_Witness ==
    /\ lastOp = Op("Forward", 0)
    /\ policyNet.InputSize = 2
    /\ last.input = <<1>>
    /\ Len(last.output) = policyNet.OutputSize
    /\ last.output # Forward(heap, policyNet, <<0, 0>>)

\* C19: NewQNetwork with a dimension that is zero or negative fails: it
\* returns no network.
C19_Original ==
    (lastOp.op = "NewQNetwork" /\ \E k \in 1..4 : last.dims[k] <= 0) =>
        /\ lastOp.n = 1
        /\ policyNet = NoNet

\* What the code does for C19: NewQNetwork fails only for a negative
\* dimension; for dimensions of zero it returns a network that has them as
\* given.
C19_ZeroWidthAccepted ==
    lastOp.op = "NewQNetwork" =>
        IF \E k \in 1..4 : last.dims[k] < 0
        THEN lastOp.n = 1 /\ policyNet = NoNet
        ELSE /\ lastOp.n = 0
             /\ <<policyNet.InputSize, policyNet.HiddenSize1, policyNet.HiddenSize2,
                  policyNet.OutputSize>> = last.dims
             /\ Len(policyNet.W1) = last.dims[1]
             /\ Len(heap[policyNet.B1]) = last.dims[2]
             /\ Len(heap[policyNet.B2]) = last.dims[3]
             /\ Len(heap[policyNet.B3]) = last.dims[4]

\* A Forward that returns an output on a network whose first hidden layer has
\* no unit.
C19_Witness ==
    /\ lastOp = Op("Forward", 0)
    /\ last.dims = <<1, 0, 1, 2>>
    /\ last.input = <<1>>
    /\ Len(last.output) = 2

-----------------------------------------------------------------------------
(* The replay buffer and a caller that keeps the arrays it passed in: the  *)
(* caller fills two arrays of its own, passes them to Add or Remember,     *)
(* keeps them (caller), and writes to them afterwards.  added keeps each   *)
(* transition as it was when it was added.                                 *)

\* The values a caller writes into its arrays.
MutateValues == {0, 2}

\* rb.Add(exp) or agent.Remember(state, ...), the state and the next state of
\* transition t in arrays of the caller's (one array for both when shared), which
\* the caller keeps; the arrays of the call before are dropped.
DoCallerAdd ==
    /\ Len(added) < MaxAdds
    /\ \E t \in Transitions : \E shared \in {FALSE, t.State = t.NextState} :
       \E via \in {"Add", "Remember"} :
         \E live \in {LiveAtAdd(rb)} :
         \E c1 \in {NewAddr(live)} :
         \E c2 \in {IF shared THEN c1 ELSE NewAddr(live \cup {c1})} :
         \E h1 \in {[heap EXCEPT ![c1] = t.State, ![c2] = t.NextState]} :
         \E r \in {IF via = "Add"
                   THEN Add(h1, rb, CallerExp(t, c1, c2), live \cup {c1, c2})
                   ELSE Remember(h1, rb, c1, t.Action, t.Reward, c2, t.Done,
                                 live \cup {c1, c2})} :
             /\ rb' = r.rb
             /\ caller' = CallerExp(t, c1, c2)
             /\ heap' = Collect(r.heap, BufferAddrs(r.rb) \cup {c1, c2})
             /\ added' = Append(added, t)
             /\ lastOp' = Op(via, 0)
    /\ batch' = <<>>
    /\ indices' = <<>>
    /\ UNCHANGED <<agent, policyNet, targetNet, decays, last, disk, game, snake, twin, trains, renderer>>

\* The caller writes v to an element of one of the arrays it passed in.
DoCallerMutate ==
    /\ caller # ZeroExperience
    /\ \E a \in ExpAddrs(caller) : \E i \in 1..Len(heap[a]) : \E v \in MutateValues :
          /\ heap[a][i] # v
          /\ heap' = [heap EXCEPT ![a][i] = v]
    /\ lastOp' = Op("mutate", 0)
    /\ UNCHANGED <<rb, batch, indices, added, agent, policyNet, targetNet, decays, last,
                   disk, caller, game, snake, twin, trains, renderer>>

NextCaller ==
    \/ DoCallerAdd
    \/ DoCallerMutate
    \/ DoSample

SpecCaller == InitBuffer /\ [][NextCaller]_vars

\* The slot of the i-th oldest valid transition.
SlotOf(rbv, i) == (rbv.position + rbv.capacity - rbv.size + i - 1) % rbv.capacity

\* C20: whatever the caller writes to the arrays it passed to Add or Remember,
\* the buffer shares no array with the caller, its valid transitions are the
\* transitions as they were when added, and so is every transition Sample
\* returns.
C20_PrivateCopies ==
    /\ BufferAddrs(rb) \cap ExpAddrs(caller) = {}
    /\ Stored(heap, rb) = LastN(added, rb.size)
    /\ \A k \in 1..Len(batch) :
          \E i \in 1..rb.size :
              /\ indices[k] = SlotOf(rb, i)
              /\ ExpValue(heap, batch[k]) = LastN(added, rb.size)[i]

\* A Sample that returns the transition added last after the caller has
\* changed both of the arrays it had passed in.
C20_Witness ==
    /\ lastOp.op = "Sample"
    /\ Len(added) > 0
    /\ ExpValue(heap, caller).State # added[Len(added)].State
    /\ ExpValue(heap, caller).NextState # added[Len(added)].NextState
    /\ \E k \in 1..Len(batch) :
          /\ indices[k] = SlotOf(rb, rb.size)
          /\ ExpValue(heap, batch[k]) = added[Len(added)]

-----------------------------------------------------------------------------
(* A snake moved on its own: NewSnake, then Move with any direction, Move  *)
(* with the direction of a relative action, and Kill.  last keeps the      *)
(* snake before the call and the arguments of the call.                    *)

\* The heads and lengths NewSnake is called with.
SnakeStarts == {Position(5, 5), Position(3, 1)}
SnakeLengths == {1, 3}

InitSnake ==
    /\ \E head \in SnakeStarts : \E dir \in Directions : \E length \in SnakeLengths :
          snake = NewSnake(0, head, dir, length)
    /\ last = [moves |-> 0]
    /\ lastOp = Op("NewSnake", 0)
    /\ heap = [a \in Addr |-> <<>>]
    /\ rb = NewReplayBuffer(1)
    /\ batch = <<>>
    /\ indices = <<>>
    /\ added = <<>>
    /\ agent = NoAgent
    /\ policyNet = NoNet
    /\ targetNet = NoNet
    /\ decays = 0
    /\ disk = NoFile
    /\ caller = ZeroExperience
    /\ game = NoGame
    /\ twin = NoTwin
    /\ trains = 0
    /\ renderer = NoRenderer

snakeOnly == <<heap, rb, batch, indices, added, agent, policyNet, targetNet, decays,
               disk, caller, game, twin, trains, renderer>>

\* snake.Move(dir, grow).
DoMove ==
    /\ last.moves < MaxMoves
    /\ \E dir \in Directions : \E grow \in BOOLEAN :
          /\ snake' = Move(snake, dir, grow)
          /\ last' = [moves |-> last.moves + 1, pre |-> snake, dir |-> dir, grow |-> grow]
          /\ lastOp' = Op("Move", dir)
    /\ UNCHANGED snakeOnly

\* snake.Move(ActionToDirection(snake.Direction, action), grow); the actions
\* are the three of the agent and one that is none of them.
DoAction ==
    /\ last.moves < MaxMoves
    /\ \E action \in 0..NumActions : \E grow \in BOOLEAN :
       \E dir \in {ActionToDirection(snake.Direction, action)} :
          /\ snake' = Move(snake, dir, grow)
          /\ last' = [moves |-> last.moves + 1, pre |-> snake, dir |-> dir, grow |-> grow,
                      action |-> action]
          /\ lastOp' = Op("ActionToDirection", action)
    /\ UNCHANGED snakeOnly

\* snake.Kill().
DoKill ==
    /\ snake.Alive
    /\ snake' = Kill(snake)
    /\ last' = [moves |-> last.moves]
    /\ lastOp' = Op("Kill", 0)
    /\ UNCHANGED snakeOnly

NextSnake ==
    \/ DoMove
    \/ DoAction
    \/ DoKill

SpecSnake == InitSnake /\ [][NextSnake]_vars

\* The step of a direction on the board, y growing downwards.
Delta(d) ==
    CASE d = Up -> Position(0, -1)
      [] d = Down -> Position(0, 1)
      [] d = Left -> Position(-1, 0)
      [] d = Right -> Position(1, 0)

\* C26: ActionToDirection returns the current direction for Straight, the
\* direction a quarter turn counter-clockwise for Left and a quarter turn
\* clockwise for Right, the two turns undo each other, and the result is never
\* the opposite of the current direction.
C26_RelativeTurns ==
    lastOp.op = "ActionToDirection" =>
        LET cur == last.pre.Direction
            d   == Delta(cur)
        IN  /\ last.dir \in Directions
            /\ last.dir # Opposite(cur)
            /\ Delta(last.dir) # Position(-d.X, -d.Y)
            /\ last.action = GoStraight => last.dir = cur
            /\ last.action = TurnLeftAction => Delta(last.dir) = Position(d.Y, -d.X)
            /\ last.action = TurnRightAction => Delta(last.dir) = Position(-d.Y, d.X)
            /\ TurnRight(TurnLeft(cur)) = cur
            /\ TurnLeft(TurnRight(cur)) = cur
            /\ last.pre.Alive => snake.Direction = last.dir

\* A left turn of a snake facing left: it moves down the board.
C26_Witness ==
    /\ lastOp = Op("ActionToDirection", TurnLeftAction)
    /\ last.pre.Direction = Left
    /\ last.pre.Alive
    /\ snake.Direction = Down
    /\ SnakeHead(snake) = PosAdd(SnakeHead(last.pre), 0, 1)

\* C29: Move with the direction opposite to the snake's keeps the direction
\* and moves the head one cell straight ahead; Move without growth keeps the
\* length of the body and Move with growth makes it one longer.
C29_Original ==
    lastOp.op = "Move" =>
        /\ last.dir = Opposite(last.pre.Direction) =>
              /\ snake.Direction = last.pre.Direction
              /\ SnakeHead(snake) = NextHead(last.pre, last.pre.Direction)
        /\ ~last.grow => Length(snake) = Length(last.pre)
        /\ last.grow => Length(snake) = Length(last.pre) + 1

\* C29, for the snake Move moves: a living snake is never reversed, keeps its
\* length without growth and is one longer with growth, the rest of the body
\* being the cells it had; a dead snake is left as it is, whatever the
\* arguments.
C29_LivingSnakeNeverReversed ==
    lastOp.op = "Move" =>
        IF last.pre.Alive
        THEN /\ snake.Direction # Opposite(last.pre.Direction)
             /\ last.dir = Opposite(last.pre.Direction) =>
                   /\ snake.Direction = last.pre.Direction
                   /\ SnakeHead(snake) = NextHead(last.pre, last.pre.Direction)
             /\ last.dir # Opposite(last.pre.Direction) =>
                   /\ snake.Direction = last.dir
                   /\ SnakeHead(snake) = NextHead(last.pre, last.dir)
             /\ ~last.grow => Length(snake) = Length(last.pre)
             /\ last.grow => Length(snake) = Length(last.pre) + 1
             /\ \A i \in 2..Length(snake) : snake.Body[i] = last.pre.Body[i - 1]
        ELSE snake = last.pre

\* A living snake of length 3 facing right, moved with Left and growth: it
\* faces right, is 4 long, and its head is one cell to the right.
C29_Witness ==
    /\ lastOp = Op("Move", Left)
    /\ last.pre.Alive
    /\ last.pre.Direction = Right
    /\ Length(last.pre) = 3
    /\ last.grow
    /\ snake.Direction = Right
    /\ Length(snake) = 4
    /\ SnakeHead(snake) = PosAdd(SnakeHead(last.pre), 1, 0)

-----------------------------------------------------------------------------
(* A game played: NewGame, then Step with any pair of directions, Reset,   *)
(* and EncodeState and CalculateShapingReward on the state reached.  game  *)
(* keeps the GameState and the StepResult of the last Step; last keeps the *)
(* GameState the last Step started from (the clone a trainer keeps), the   *)
(* directions passed, and what EncodeState or CalculateShapingReward       *)
(* returned for snake lastOp.n.                                            *)

\* The boards a game is made for.
GameConfigs == {[BoardWidth |-> 9, BoardHeight |-> 2], [BoardWidth |-> 3, BoardHeight |-> 1]}

\* The values the rng can return to spawnFood.
SpawnDraws(snakes, width, height) ==
    IF SpawnChoices(snakes, width, height) = 0 THEN {0}
    ELSE 0..(SpawnChoices(snakes, width, height) - 1)

\* The snakes of Reset.
ResetSnakes(width, height) == Reset(width, height, 0).Snakes

InitGame ==
    /\ \E cfg \in GameConfigs :
       \E idx \in SpawnDraws(ResetSnakes(cfg.BoardWidth, cfg.BoardHeight),
                             cfg.BoardWidth, cfg.BoardHeight) :
       \E st \in {Reset(cfg.BoardWidth, cfg.BoardHeight, idx)} :
          /\ game = [State |-> st, result |-> NoResult]
          /\ last = [pre |-> st, actions |-> Pair(Right, Left),
                     from |-> [GameOver |-> FALSE, Turn |-> 0]]
    /\ lastOp = Op("Reset", 0)
    /\ heap = [a \in Addr |-> <<>>]
    /\ rb = NewReplayBuffer(1)
    /\ batch = <<>>
    /\ indices = <<>>
    /\ added = <<>>
    /\ agent = NoAgent
    /\ policyNet = NoNet
    /\ targetNet = NoNet
    /\ decays = 0
    /\ disk = NoFile
    /\ caller = ZeroExperience
    /\ snake = NoSnake
    /\ twin = NoTwin
    /\ trains = 0
    /\ renderer = NoRenderer

gameOnly == <<heap, rb, batch, indices, added, agent, policyNet, targetNet, decays,
              disk, caller, snake, twin, trains, renderer>>

\* The last step was a call of the game.  EncodeState and
\* CalculateShapingReward change nothing of the game: the calls that follow
\* them are followed from the state they were made in.
Played == lastOp.op \in {"Reset", "Step"}

\* g.Reset().
DoReset ==
    /\ Played
    /\ \E idx \in SpawnDraws(ResetSnakes(game.State.Width, game.State.Height),
                             game.State.Width, game.State.Height) :
       \E st \in {Reset(game.State.Width, game.State.Height, idx)} :
          /\ game' = [State |-> st, result |-> game.result]
          /\ last' = [pre |-> st, actions |-> Pair(Right, Left),
                      from |-> [GameOver |-> game.State.GameOver,
                                Turn |-> game.State.Turn]]
    /\ lastOp' = Op("Reset", 0)
    /\ UNCHANGED gameOnly

\* g.Step(actions) with any two directions.
DoStep ==
    /\ Played
    /\ game.State.Turn < MaxTurns
    /\ \E d0 \in Directions : \E d1 \in Directions :
       \E actions \in {Pair(d0, d1)} :
       \E idx \in (IF WillEat(game.State, actions, 0) \/ WillEat(game.State, actions, 1)
                   THEN SpawnDraws(MovedSnakes(game.State, actions),
                                   game.State.Width, game.State.Height)
                   ELSE {0}) :
       \E r \in {Step(game.State, actions, idx)} :
          /\ game' = r
          /\ last' = [pre |-> game.State, actions |-> actions]
    /\ lastOp' = Op("Step", 0)
    /\ UNCHANGED gameOnly

\* EncodeState(state, snakeID).
DoEncodeState ==
    /\ Played
    /\ \E snakeID \in {0, 1} :
          /\ last' = [pre |-> last.pre, actions |-> last.actions,
                      features |-> EncodeState(game.State, snakeID)]
          /\ lastOp' = Op("EncodeState", snakeID)
    /\ UNCHANGED game
    /\ UNCHANGED gameOnly

\* CalculateShapingReward(prevState, state, snakeID), prevState the clone made
\* before the last Step.
DoCalculateShapingReward ==
    /\ Played
    /\ \E snakeID \in {0, 1} :
          /\ last' = [pre |-> last.pre, actions |-> last.actions,
                      reward |-> CalculateShapingReward(last.pre, game.State, snakeID)]
          /\ lastOp' = Op("CalculateShapingReward", snakeID)
    /\ UNCHANGED game
    /\ UNCHANGED gameOnly

NextGame ==
    \/ DoReset
    \/ DoStep
    \/ DoEncodeState
    \/ DoCalculateShapingReward

SpecGame == InitGame /\ [][NextGame]_vars

\* The last step was a Step of a game that was not over.
AfterStep == lastOp.op = "Step" /\ ~last.pre.GameOver

\* C27: after a Step of a game that is not over, GameOver is true exactly when
\* a snake died in the step; Winner is the snake left alive, or -1 when both
\* died, as they do whenever their heads meet in one cell; and in every state
\* that is not over both snakes are alive.
C27_GameOverAndWinner ==
    /\ ~game.State.GameOver => game.State.Snakes[0].Alive /\ game.State.Snakes[1].Alive
    /\ AfterStep =>
          LET died == game.result.Died
              snakes == game.State.Snakes
          IN  /\ \A i \in {0, 1} :
                    died[i] <=> (last.pre.Snakes[i].Alive /\ ~snakes[i].Alive)
              /\ game.State.GameOver <=> (died[0] \/ died[1])
              /\ game.result.GameOver = game.State.GameOver
              /\ game.State.GameOver => game.result.Winner = game.State.Winner
              /\ (died[0] /\ died[1]) => game.State.Winner = -1
              /\ \A i \in {0, 1} : (died[i] /\ ~died[1 - i]) => game.State.Winner = 1 - i
              /\ SnakeHead(snakes[0]) = SnakeHead(snakes[1]) =>
                    died[0] /\ died[1] /\ game.State.Winner = -1

\* Two snakes of different lengths whose heads have met on the board.
C27_Witness ==
    /\ AfterStep
    /\ SnakeHead(game.State.Snakes[0]) = SnakeHead(game.State.Snakes[1])
    /\ ~CheckWallCollision(SnakeHead(game.State.Snakes[0]), game.State.Width,
                           game.State.Height)
    /\ Length(game.State.Snakes[0]) > Length(game.State.Snakes[1])
    /\ game.State.GameOver
    /\ game.State.Winner = -1

\* A Step after which one snake is dead and the other has won.
C27_WitnessWinner ==
    /\ AfterStep
    /\ game.result.Died = Pair(TRUE, FALSE)
    /\ game.State.Winner = 1

\* The cells the two snakes occupy.
SnakeCells(st) == BodyCells(st.Snakes[0]) \cup BodyCells(st.Snakes[1])

\* C28: a living snake whose head Step moves onto the active food eats it: it
\* is in AteFood, its score and its length are one more, and the food is
\* spawned anew; and active food is never on a cell a snake occupies.
C28_Original ==
    /\ game.State.Food.Active => game.State.Food.Position \notin SnakeCells(game.State)
    /\ AfterStep =>
          \A i \in {0, 1} :
             (/\ last.pre.Snakes[i].Alive
              /\ last.pre.Food.Active
              /\ SnakeHead(game.State.Snakes[i]) = last.pre.Food.Position) =>
                 /\ game.result.AteFood[i]
                 /\ game.State.Snakes[i].Score = last.pre.Snakes[i].Score + 1
                 /\ Length(game.State.Snakes[i]) = Length(last.pre.Snakes[i]) + 1

\* The direction Step passes for snake i is the opposite of the snake's.
Reversal(i) == last.actions[i] = Opposite(last.pre.Snakes[i].Direction)

\* What the code does for C28: a snake eats the food its head moves onto
\* unless the direction passed for it was the opposite of its own, and the
\* food spawned is on a cell of no snake.
C28_EatsUnlessReversed ==
    AfterStep =>
        /\ \A i \in {0, 1} :
              (/\ last.pre.Snakes[i].Alive
               /\ last.pre.Food.Active
               /\ last.pre.Food.Position \notin SnakeCells(last.pre)
               /\ SnakeHead(game.State.Snakes[i]) = last.pre.Food.Position) =>
                  IF Reversal(i)
                  THEN /\ ~game.result.AteFood[i]
                       /\ game.State.Snakes[i].Score = last.pre.Snakes[i].Score
                       /\ Length(game.State.Snakes[i]) = Length(last.pre.Snakes[i])
                  ELSE /\ game.result.AteFood[i]
                       /\ game.State.Snakes[i].Score = last.pre.Snakes[i].Score + 1
                       /\ Length(game.State.Snakes[i]) = Length(last.pre.Snakes[i]) + 1
        /\ (game.result.AteFood[0] \/ game.result.AteFood[1]) =>
              /\ game.State.Food.Active
              /\ game.State.Food.Position \notin SnakeCells(game.State)

\* A living snake, passed the opposite of its direction, with its head on the
\* active food and no food eaten.
C28_Witness ==
    /\ AfterStep
    /\ ~game.State.GameOver
    /\ Reversal(0)
    /\ game.State.Food.Active
    /\ SnakeHead(game.State.Snakes[0]) = game.State.Food.Position
    /\ game.result.AteFood = Pair(FALSE, FALSE)
    /\ game.State.Snakes[0].Score = 0

\* The last step was EncodeState for snake lastOp.n; Agent is that snake,
\* Opponent the other, Feature(k) is features[k] of the code.
Encoded == lastOp.op = "EncodeState"
Agent == game.State.Snakes[lastOp.n]
Opponent == game.State.Snakes[1 - lastOp.n]
Feature(k) == last.features[k + 1]

\* C21: EncodeState returns exactly 22 entries, and for a snake that is not
\* alive every one of them is 0, whatever the opponent, the food and the board.
C21_DeadAgentAllZero ==
    Encoded =>
        /\ DOMAIN last.features = 1..22
        /\ ~Agent.Alive => \A k \in 0..21 : Feature(k) = RatZero

\* The encoding of a dead snake whose opponent lives, with food on the board.
C21_Witness ==
    /\ Encoded
    /\ ~Agent.Alive
    /\ Opponent.Alive
    /\ game.State.Food.Active
    /\ \A k \in 0..21 : Feature(k) = RatZero

\* The number of features from lo to hi that are 1, and that all are 0 or 1.
Ones(lo, hi) == Cardinality({k \in lo..hi : Feature(k) = RatOne})
Flags(lo, hi) == \A k \in lo..hi : Feature(k) \in {RatZero, RatOne}

\* C22: for a living agent each of the blocks 3-6 (direction), 7-10 (food
\* relative to the head) and 11-14 (opponent's head relative to the head) holds
\* exactly one 1 when it applies (food active, opponent alive) and no 1
\* otherwise.
C22_Original ==
    (Encoded /\ Agent.Alive) =>
        /\ Flags(3, 14)
        /\ Ones(3, 6) = 1
        /\ Ones(7, 10) = (IF game.State.Food.Active THEN 1 ELSE 0)
        /\ Ones(11, 14) = (IF Opponent.Alive THEN 1 ELSE 0)

\* What the code does for C22: the direction block holds exactly one 1; the
\* food and the opponent block hold one flag per side (above, below, left,
\* right), so two 1s for a cell on neither the row nor the column of the head.
C22_FlagPerSide ==
    (Encoded /\ Agent.Alive) =>
        LET head == SnakeHead(Agent)
            food == game.State.Food
            opp  == SnakeHead(Opponent)
            sides(active, p) ==
                (IF active /\ p.X # head.X THEN 1 ELSE 0)
                    + (IF active /\ p.Y # head.Y THEN 1 ELSE 0)
        IN  /\ Flags(3, 14)
            /\ Ones(3, 6) = 1
            /\ Feature(3 + Agent.Direction) = RatOne
            /\ Ones(7, 10) = sides(food.Active, food.Position)
            /\ Ones(11, 14) = sides(Opponent.Alive, opp)

\* Active food up and to the right of a living agent's head: two 1s in the
\* food block.
C22_Witness ==
    /\ Encoded
    /\ Agent.Alive
    /\ game.State.Food.Active
    /\ game.State.Food.Position = PosAdd(SnakeHead(Agent), 1, -1)
    /\ Feature(7) = RatOne
    /\ Feature(10) = RatOne
    /\ Ones(7, 10) = 2

\* The cell n steps from the agent's head in direction d, and the three
\* directions of the relative actions in the order of the features.
Ahead(d, n) == PosAdd(SnakeHead(Agent), n * Delta(d).X, n * Delta(d).Y)
Relative(k) ==
    CASE k = 0 -> Agent.Direction
      [] k = 1 -> TurnLeft(Agent.Direction)
      [] k = 2 -> TurnRight(Agent.Direction)

\* A cell is off the board, a cell of the agent's body other than its head, a
\* cell of the opponent's body.
OffBoard(c) ==
    c.X < 0 \/ c.X >= game.State.Width \/ c.Y < 0 \/ c.Y >= game.State.Height
OwnBody(c) == \E i \in 2..Length(Agent) : Agent.Body[i] = c
OpponentBody(c) == \E i \in 1..Length(Opponent) : Opponent.Body[i] = c

\* C23: for a living agent, features 0, 1, 2 are 1 exactly when the cell one
\* step straight / left / right of the head is off the board, a cell of the
\* agent's body other than its head, or a cell of the opponent's body.
C23_Original ==
    (Encoded /\ Agent.Alive) =>
        \A k \in 0..2 :
            Feature(k) = boolToFloat(\/ OffBoard(Ahead(Relative(k), 1))
                                     \/ OwnBody(Ahead(Relative(k), 1))
                                     \/ OpponentBody(Ahead(Relative(k), 1)))

\* The danger the code tells: the opponent's body counts while it is alive.
Dangerous(c) == OffBoard(c) \/ OwnBody(c) \/ (Opponent.Alive /\ OpponentBody(c))

\* C23, with the opponent's body counted only while the opponent is alive.
C23_LivingOpponentOnly ==
    (Encoded /\ Agent.Alive) =>
        \A k \in 0..2 : Feature(k) = boolToFloat(Dangerous(Ahead(Relative(k), 1)))

\* The cell straight ahead of a living agent is on the board, free of its own
\* body and a cell of its dead opponent: feature 0 is 0.
C23_Witness ==
    /\ Encoded
    /\ Agent.Alive
    /\ ~Opponent.Alive
    /\ ~OffBoard(Ahead(Agent.Direction, 1))
    /\ ~OwnBody(Ahead(Agent.Direction, 1))
    /\ OpponentBody(Ahead(Agent.Direction, 1))
    /\ Feature(0) = RatZero

\* The cell ahead of a living agent is a cell of its living opponent.
C23_WitnessLiving ==
    /\ Encoded
    /\ Agent.Alive
    /\ Opponent.Alive
    /\ ~OffBoard(Ahead(Agent.Direction, 1))
    /\ ~OwnBody(Ahead(Agent.Direction, 1))
    /\ OpponentBody(Ahead(Agent.Direction, 1))
    /\ Feature(0) = RatOne

Shaped == lastOp.op = "CalculateShapingReward"
DistBefore == ManhattanDistance(SnakeHead(last.pre.Snakes[lastOp.n]),
                                last.pre.Food.Position)
DistAfter == ManhattanDistance(SnakeHead(game.State.Snakes[lastOp.n]),
                               game.State.Food.Position)
FoodInBoth == last.pre.Food.Active /\ game.State.Food.Active
AllAlive(st) == st.Snakes[0].Alive /\ st.Snakes[1].Alive

\* C25: CalculateShapingReward returns +0.1 when the distance to the food
\* fell, -0.1 when it rose and 0 when it is unchanged, and 0 whenever either
\* snake is dead or the food is inactive in either of the two observations.
C25_Original ==
    Shaped =>
        IF AllAlive(last.pre) /\ AllAlive(game.State) /\ FoodInBoth
        THEN last.reward = (IF DistAfter < DistBefore THEN 10
                            ELSE IF DistAfter > DistBefore THEN -10 ELSE 0)
        ELSE last.reward = 0

\* C25, with only the snake the reward is for required to be alive.
C25_OwnSnakeAlive ==
    Shaped =>
        IF /\ last.pre.Snakes[lastOp.n].Alive
           /\ game.State.Snakes[lastOp.n].Alive
           /\ FoodInBoth
        THEN last.reward = (IF DistAfter < DistBefore THEN 10
                            ELSE IF DistAfter > DistBefore THEN -10 ELSE 0)
        ELSE last.reward = 0

\* The opponent died in the step in which the agent came nearer to the food:
\* the reward is +0.1.
C25_Witness ==
    /\ Shaped
    /\ ~game.State.Snakes[1 - lastOp.n].Alive
    /\ game.State.Snakes[lastOp.n].Alive
    /\ FoodInBoth
    /\ DistAfter < DistBefore
    /\ last.reward = 10

\* A step that leaves the distance as it was: the food eaten is spawned anew
\* as far from the head as the old was before the step.
C25_WitnessUnchanged ==
    /\ Shaped
    /\ AllAlive(game.State)
    /\ FoodInBoth
    /\ lastOp.n = 0
    /\ last.pre # game.State
    /\ DistAfter = DistBefore
    /\ last.reward = 0


\* The last step was Reset, and the cells of the board no snake is on.
AfterReset == lastOp.op = "Reset"
FreeCells ==
    {c \in {Position(x, y) : x \in 0..(game.State.Width - 1),
                             y \in 0..(game.State.Height - 1)} :
        c \notin SnakeCells(game.State)}

\* What Reset restores but the food: turn 0, a game not over with no winner,
\* both snakes alive, three cells long, with score 0.
ResetBasics ==
    /\ game.State.Turn = 0
    /\ ~game.State.GameOver
    /\ game.State.Winner = -1
    /\ \A i \in {0, 1} :
          /\ game.State.Snakes[i].Alive
          /\ Length(game.State.Snakes[i]) = 3
          /\ game.State.Snakes[i].Score = 0

\* C31: Reset, from any state of the game, a finished one included, restores
\* turn 0, a game not over with no winner, both snakes alive with length 3 and
\* score 0, and active food on a cell no snake is on.
C31_Original ==
    AfterReset =>
        /\ ResetBasics
        /\ game.State.Food.Active
        /\ game.State.Food.Position \in FreeCells

\* C31, the food being active, on a free cell, when the board has a cell the
\* two new snakes are not on, and not active when it has none.
C31_ResetRestores ==
    AfterReset =>
        /\ ResetBasics
        /\ IF FreeCells # {}
           THEN game.State.Food.Active /\ game.State.Food.Position \in FreeCells
           ELSE ~game.State.Food.Active

\* Reset of a finished game, on a board with free cells.
C31_Witness ==
    /\ AfterReset
    /\ last.from.GameOver
    /\ last.from.Turn > 0
    /\ ResetBasics
    /\ game.State.Food.Active
    /\ game.State.Food.Position \in FreeCells

\* Reset on a board the two new snakes cover: no food.
C31_WitnessNoFreeCell ==
    /\ AfterReset
    /\ FreeCells = {}
    /\ game.State.Width > 0
    /\ ~game.State.Food.Active

-----------------------------------------------------------------------------
(* Properties of Backward (SpecNetwork).                                   *)

\* The last operation was a Backward pass.
AfterBackwardPass == lastOp.op = "Backward"

\* The weights of the network Backward was called on, before and after the
\* pass, and what ForwardWithCache gave the pass: the output and the cache.
WeightsBefore == NetValue(last.pre.heap, Written)
WeightsAfter == NetValue(heap, Written)
Cached == ForwardWithCache(last.pre.heap, Written, last.call.input)

\* The output unit of the action passed to Backward, and its error.
ActionUnit == last.call.action + 1
ActionError == Cached.output[ActionUnit] - last.call.targetQ

\* C35: a Backward pass changes, in the output layer, only the column of W3
\* and the entry of B3 of the action it was passed, and when the output for
\* that action is the target value it changes no weight and no bias.
C35_OnlyActionUnit ==
    AfterBackwardPass =>
        /\ \A j \in 1..Written.OutputSize :
              j # ActionUnit =>
                 /\ WeightsAfter.B3[j] = WeightsBefore.B3[j]
                 /\ \A i \in 1..Len(WeightsBefore.W3) :
                       WeightsAfter.W3[i][j] = WeightsBefore.W3[i][j]
        /\ WeightsAfter.B3[ActionUnit]
              = WeightsBefore.B3[ActionUnit] - Written.LearningRate * ActionError
        /\ ActionError = 0 => WeightsAfter = WeightsBefore

\* C35's case: a pass that changed the column and bias of its action, the
\* outputs of the other units being off the target value too.
C35_Witness ==
    /\ AfterBackwardPass
    /\ ActionError # 0
    /\ \A j \in 1..Written.OutputSize : Cached.output[j] # last.call.targetQ
    /\ WeightsAfter.B3[ActionUnit] # WeightsBefore.B3[ActionUnit]
    /\ \E i \in 1..Len(WeightsBefore.W3) :
          WeightsAfter.W3[i][ActionUnit] # WeightsBefore.W3[i][ActionUnit]

\* A pass whose output for the action was the target value already, another
\* unit's being off it.
C35_WitnessAtTarget ==
    /\ AfterBackwardPass
    /\ ActionError = 0
    /\ \E j \in 1..Written.OutputSize : Cached.output[j] # last.call.targetQ
    /\ WeightsAfter = WeightsBefore

\* The error the pass gives the units of the second hidden layer and of the
\* first, the sums taken over the weights as they were before the pass.
ErrorH2 ==
    [k \in 1..Written.HiddenSize2 |->
        IF Cached.cache.z2[k] > 0 THEN WeightsBefore.W3[k][ActionUnit] * ActionError
        ELSE 0]
ErrorH1 ==
    [k \in 1..Written.HiddenSize1 |->
        IF Cached.cache.z1[k] > 0
        THEN SumTo([j \in 1..Written.HiddenSize2 |-> WeightsBefore.W2[k][j] * ErrorH2[j]],
                   Written.HiddenSize2)
        ELSE 0]

\* C36: a hidden unit whose cached pre-activation is zero or less has output
\* 0 in the forward pass, and the Backward pass leaves its bias and its
\* incoming weights as they were; the bias of every hidden unit moves by the
\* learning rate times an error summed over the next layer's weights as they
\* were before the pass.
C36_GatingMatchesForward ==
    AfterBackwardPass =>
        /\ \A k \in 1..Written.HiddenSize2 :
              /\ Cached.cache.z2[k] <= 0 =>
                    /\ Cached.cache.h2[k] = 0
                    /\ WeightsAfter.B2[k] = WeightsBefore.B2[k]
                    /\ \A i \in 1..Len(WeightsBefore.W2) :
                          WeightsAfter.W2[i][k] = WeightsBefore.W2[i][k]
              /\ Cached.cache.z2[k] > 0 => Cached.cache.h2[k] = Cached.cache.z2[k]
              /\ WeightsAfter.B2[k]
                    = WeightsBefore.B2[k] - Written.LearningRate * ErrorH2[k]
        /\ \A k \in 1..Written.HiddenSize1 :
              /\ Cached.cache.z1[k] <= 0 =>
                    /\ Cached.cache.h1[k] = 0
                    /\ WeightsAfter.B1[k] = WeightsBefore.B1[k]
                    /\ \A i \in 1..Len(WeightsBefore.W1) :
                          WeightsAfter.W1[i][k] = WeightsBefore.W1[i][k]
              /\ Cached.cache.z1[k] > 0 => Cached.cache.h1[k] = Cached.cache.z1[k]
              /\ WeightsAfter.B1[k]
                    = WeightsBefore.B1[k] - Written.LearningRate * ErrorH1[k]

\* C36's case: a pass with a nonzero error at the output and a unit of the
\* second hidden layer whose pre-activation is exactly zero, the weight from
\* it to the action's unit being nonzero: its bias stays.
C36_Witness ==
    /\ AfterBackwardPass
    /\ ActionError # 0
    /\ \E k \in 1..Written.HiddenSize2 :
          /\ Cached.cache.z2[k] = 0
          /\ WeightsBefore.W3[k][ActionUnit] # 0
          /\ WeightsAfter.B2[k] = WeightsBefore.B2[k]

\* A pass that changed the weights of the output layer and gave a unit of the
\* second hidden layer an error that the changed weights would not give.
C36_WitnessWeightsBefore ==
    /\ AfterBackwardPass
    /\ \E k \in 1..Written.HiddenSize2 :
          /\ Cached.cache.z2[k] > 0
          /\ WeightsAfter.W3[k][ActionUnit] # WeightsBefore.W3[k][ActionUnit]
          /\ WeightsAfter.B2[k] # WeightsBefore.B2[k]
          /\ WeightsAfter.B2[k]
                # WeightsBefore.B2[k]
                  - Written.LearningRate * WeightsAfter.W3[k][ActionUnit] * ActionError

-----------------------------------------------------------------------------
(* Claims on the agent driven by Remember, Train, UpdateTargetNetwork and  *)
(* Load (SpecAgent), where SetState is never called.                       *)

\* C32: every Train call adds exactly one to StepCount, the calls that do not
\* train included, so that StepCount is the number of Train calls made since
\* NewDQNAgent.
C32_StepCountIsTrainCalls ==
    /\ agent.StepCount = trains
    /\ AfterTrain => agent.StepCount = last.pre.agent.StepCount + 1

\* The fifth Train call finds a full batch in the buffer off the train
\* interval: it does not train, and StepCount is 5.
C32_Witness ==
    /\ AfterTrain
    /\ EnoughData
    /\ ~OnInterval
    /\ ~last.trained
    /\ trains = 5
    /\ agent.StepCount = 5

\* The heap one Backward call of the policy network leaves, for the i-th
\* transition of the batch, from the heap that transition was trained from.
AfterBackward(i) ==
    LET l   == last.log[i]
        fwd == ForwardWithCache(l.heap, last.pre.PolicyNet, l.exp.State)
    IN  Backward(l.heap, last.pre.PolicyNet, fwd.cache, fwd.output, l.exp.Action,
                 l.targetQ)

\* The weights of the policy network in the heap h.
PolicyIn(h) == NetValue(h, last.pre.PolicyNet)

\* C34: a Train call that trains goes through the batch Sample returned in its
\* order, one transition at a time: the first is trained from the weights the
\* call started with, each later one from the weights one Backward call for
\* the transition before it left, its output and loss computed from those, and
\* the call ends with the weights one Backward call for the last one left.
C34_OneBackwardPerTransition ==
    (AfterTrain /\ last.trained) =>
        /\ Len(last.log) = Min(last.pre.agent.BatchSize, last.pre.rb.size)
        /\ \E perm \in Perm(last.pre.rb.size) :
              \A i \in 1..Len(last.log) :
                  last.log[i].exp
                      = ExpValue(last.pre.heap,
                                 Sample(last.pre.rb, last.pre.agent.BatchSize, perm)[i])
        /\ PolicyIn(last.log[1].heap) = PolicyIn(last.pre.heap)
        /\ \A i \in 1..Len(last.log) :
              LET l == last.log[i]
                  q == Forward(l.heap, last.pre.PolicyNet, l.exp.State)[l.exp.Action + 1]
              IN  /\ l.currentQ = q
                  /\ l.loss = RatTimes((q - l.targetQ) * (q - l.targetQ), Half)
        /\ \A i \in 1..(Len(last.log) - 1) :
              PolicyIn(last.log[i + 1].heap) = PolicyIn(AfterBackward(i))
        /\ PolicyIn(heap) = PolicyIn(AfterBackward(Len(last.log)))

\* C34's case: a batch of two transitions, the update for the first changing
\* the output the policy network gives for the second.
C34_Witness ==
    /\ AfterTrain
    /\ last.trained
    /\ Len(last.log) = 2
    /\ PolicyIn(last.log[2].heap) # PolicyIn(last.pre.heap)
    /\ last.log[2].currentQ
          # Forward(last.pre.heap, last.pre.PolicyNet,
                    last.log[2].exp.State)[last.log[2].exp.Action + 1]
    /\ PolicyIn(heap) # PolicyIn(last.log[2].heap)

-----------------------------------------------------------------------------
(* Claims on the replay buffer under Add, Sample and Clear (SpecBuffer);   *)
(* added holds the transitions added since the last Clear.                 *)

\* The slots that hold a transition written before the last Clear and not
\* overwritten since.
StaleSlots ==
    {i \in DOMAIN rb.buffer :
        /\ rb.buffer[i] # ZeroExperience
        /\ \A k \in 1..rb.size : i # SlotOf(rb, k)}

TargetIn(h) == NetValue(h, last.pre.TargetNet)

\* C38: a Train call leaves the target network as it was unless it trains
\* and brings StepCount to a multiple of TargetUpdate; such a call gives it
\* the weights of the policy network after the whole batch, every transition
\* of the batch having been trained with the target network as it was when
\* the call started and its TD target computed from those weights.
C38_SyncAfterBatch ==
    AfterTrain =>
        /\ last.synced <=> (last.trained /\ agent.StepCount % agent.TargetUpdate = 0)
        /\ ~last.synced => TargetIn(heap) = TargetIn(last.pre.heap)
        /\ last.synced => TargetIn(heap) = PolicyIn(heap)
        /\ \A i \in 1..Len(last.log) :
              LET l == last.log[i]
              IN  /\ TargetIn(l.heap) = TargetIn(last.pre.heap)
                  /\ ~l.exp.Done =>
                        l.targetQ = l.exp.Reward
                                    + MulFrac(Max(Forward(last.pre.heap, last.pre.TargetNet,
                                                          l.exp.NextState)),
                                              GammaNum, GammaDen)

\* C38's case: a call that trained on two transitions and then changed the
\* target network, the TD target of a non-terminal transition being another
\* than the new target weights would give.
C38_Witness ==
    /\ AfterTrain
    /\ last.synced
    /\ Len(last.log) = 2
    /\ TargetIn(heap) # TargetIn(last.pre.heap)
    /\ \E i \in 1..Len(last.log) :
          /\ ~last.log[i].exp.Done
          /\ last.log[i].targetQ
                # last.log[i].exp.Reward
                  + MulFrac(Max(Forward(heap, last.pre.TargetNet,
                                        last.log[i].exp.NextState)),
                            GammaNum, GammaDen)

\* A call that trained and left the target network unchanged, the policy
\* network having moved away from it.
C38_WitnessNoSync ==
    /\ AfterTrain
    /\ last.trained
    /\ ~last.synced
    /\ TargetIn(heap) = TargetIn(last.pre.heap)
    /\ TargetIn(heap) # PolicyIn(heap)

-----------------------------------------------------------------------------
(* Claims on Step called on a finished game (SpecGame).                    *)

\* The last operation was a Step call on a game that was over.
SteppedWhenOver == lastOp.op = "Step" /\ last.pre.GameOver

\* C39: a Step call on a game that is over leaves the turn, the snakes, the
\* food and the winner as they were and the game over, and returns GameOver
\* true, the winner the game holds, rewards of zero and nothing eaten and
\* nobody dead; a game that is over is over after every operation but Reset.
C39_StepWhenOver ==
    /\ SteppedWhenOver =>
          /\ game.State = last.pre
          /\ game.State.GameOver
          /\ game.result.GameOver
          /\ game.result.Winner = last.pre.Winner
          /\ game.result.Rewards = Pair(0, 0)
          /\ game.result.AteFood = Pair(FALSE, FALSE)
          /\ game.result.Died = Pair(FALSE, FALSE)
    /\ (lastOp.op \in {"Step", "EncodeState", "CalculateShapingReward"}
          /\ last.pre.GameOver) => game.State.GameOver

\* C39's case: a Step call, with directions that would move both snakes, on a
\* game snake 1 has won in its first turn.
C39_Witness ==
    /\ SteppedWhenOver
    /\ last.pre.Winner = 1
    /\ last.pre.Turn = 1
    /\ ~last.pre.Snakes[0].Alive
    /\ last.pre.Snakes[1].Alive
    /\ game.result.Winner = 1
    /\ game.State.Turn = 1

-----------------------------------------------------------------------------
(* The replay buffer and a caller that writes to what Sample returned: the *)
(* caller holds the batch until its next Add, Sample or Clear, and writes  *)
(* to the elements of the State and NextState slices of its Experiences.   *)

\* The writes the caller has made so far.
Writes == IF "writes" \in DOMAIN last THEN last.writes ELSE 0

\* The caller writes v to an element of a slice of an Experience of the batch
\* Sample returned.
DoMutateSampled ==
    /\ Writes < MaxWrites
    /\ \E a \in BatchAddrs(batch) : \E i \in 1..Len(heap[a]) : \E v \in MutateValues :
          /\ heap[a][i] # v
          /\ heap' = [heap EXCEPT ![a][i] = v]
    /\ last' = [writes |-> Writes + 1]
    /\ lastOp' = Op("mutateSampled", 0)
    /\ UNCHANGED <<rb, batch, indices, added, agent, policyNet, targetNet, decays>>
    /\ UNCHANGED envVars

\* rb.Add(exp), the caller dropping the batch it held.
DoHolderAdd ==
    /\ Len(added) < MaxRemember
    /\ DoAdd

NextHolder ==
    \/ DoHolderAdd
    \/ DoSample
    \/ DoMutateSampled

SpecHolder == InitBuffer /\ [][NextHolder]_vars

\* C33: a transition of the buffer changes only by being overwritten by a
\* later Add: whatever is written to the vectors of the transitions Sample
\* returned, the valid transitions of the buffer are the transitions as they
\* were added, and so are those a later Sample returns.
C33_Original ==
    /\ Stored(heap, rb) = LastN(added, rb.size)
    /\ lastOp.op = "Sample" =>
          \A k \in 1..Len(batch) :
              \E i \in 1..rb.size :
                  /\ indices[k] = SlotOf(rb, i)
                  /\ ExpValue(heap, batch[k]) = LastN(added, rb.size)[i]

\* What the code does for C33: the Experiences Sample returns are the structs
\* of the slots drawn, their slices the arrays of the buffer, so that a write
\* through them is a write to the buffer.
C33_BatchSharesArrays ==
    /\ Len(batch) = Len(indices)
    /\ \A k \in 1..Len(batch) : batch[k] = rb.buffer[indices[k]]
    /\ BatchAddrs(batch) \subseteq BufferAddrs(rb)

\* A Sample that returns a transition with a vector as the caller left it
\* after writing to the batch of an earlier Sample, not as it was added.
C33_Witness ==
    /\ lastOp.op = "Sample"
    /\ Len(batch) > 0
    /\ rb.size = 1
    /\ Len(added) = 1
    /\ ExpValue(heap, batch[1]) # added[1]
    /\ ExpValue(heap, batch[1]).Action = added[1].Action
    /\ Stored(heap, rb) # LastN(added, rb.size)

-----------------------------------------------------------------------------
(* GameRenderer (internal/render/renderer.go).                             *)
(*                                                                         *)
(* renderer holds the fields Update reads and writes; game is the Game the *)
(* renderer points to.  The keys of a tick are the set of the keys just    *)
(* pressed: "Up" stands for Up or Equal, "Down" for Down or Minus, "Q" for *)
(* Q or Escape.  The action of a snake, the agent's or rand.Intn's, is any *)
(* of RenderActions.  last keeps whether the game the renderer holds has   *)
(* been counted since its last Reset (held).                               *)

gameOverDelayTicks == 120

\* ticksPerStep for the speeds 1 to 5.
speeds == <<30, 15, 10, 5, 2>>

\* NewRenderer(g, agent, cfg).
NewRenderer ==
    [made |-> TRUE, ticksPerStep |-> 10, tickCount |-> 0, paused |-> FALSE, speed |-> 3,
     gamesPlayed |-> 0, wins |-> Pair(0, 0), ties |-> 0,
     gameOverPause |-> FALSE, gameOverTicks |-> 0]

updateSpeed(r) == [r EXCEPT !.ticksPerStep = speeds[r.speed]]

\* handleInput with the keys just pressed, the rng returning idx to the
\* spawnFood of Reset: the renderer, the game, whether Reset was called and
\* whether ErrQuit is returned.
handleInput(r, g, keys, idx) ==
    Then(IF "Space" \in keys THEN [r EXCEPT !.paused = ~r.paused] ELSE r, LAMBDA r1 :
    Then(IF "Up" \in keys
         THEN updateSpeed([r1 EXCEPT !.speed = IF r1.speed + 1 > 5 THEN 5 ELSE r1.speed + 1])
         ELSE r1, LAMBDA r2 :
    Then(IF "Down" \in keys
         THEN updateSpeed([r2 EXCEPT !.speed = IF r2.speed - 1 < 1 THEN 1 ELSE r2.speed - 1])
         ELSE r2, LAMBDA r3 :
        [renderer |-> r3,
         game     |-> IF "R" \in keys
                      THEN [g EXCEPT !.State = Reset(g.State.Width, g.State.Height, idx)]
                      ELSE g,
         reset    |-> "R" \in keys,
         err      |-> "Q" \in keys])))

\* Update as it would be if counting a game did not start the game-over pause.
UpdateWithoutGameOverPause(r, g, keys, idxR, a0, a1, idxS) ==
    Then(handleInput(r, g, keys, idxR), LAMBDA in :
        IF in.err \/ in.renderer.paused
        THEN [renderer |-> in.renderer, game |-> in.game, err |-> in.err,
              reset |-> in.reset, stepped |-> FALSE, counted |-> FALSE]
        ELSE IF in.renderer.gameOverPause
        THEN Then([in.renderer EXCEPT !.gameOverTicks = @ + 1], LAMBDA r1 :
                 IF r1.gameOverTicks >= gameOverDelayTicks
                 THEN [renderer |-> [r1 EXCEPT !.gameOverPause = FALSE,
                                               !.gameOverTicks = 0],
                       game     |-> [in.game EXCEPT
                                        !.State = Reset(in.game.State.Width,
                                                        in.game.State.Height, idxR)],
                       err |-> FALSE, reset |-> TRUE, stepped |-> FALSE,
                       counted |-> FALSE]
                 ELSE [renderer |-> r1, game |-> in.game, err |-> FALSE,
                       reset |-> in.reset, stepped |-> FALSE, counted |-> FALSE])
        ELSE IF in.renderer.tickCount + 1 < in.renderer.ticksPerStep
        THEN [renderer |-> [in.renderer EXCEPT !.tickCount = @ + 1], game |-> in.game,
              err |-> FALSE, reset |-> in.reset, stepped |-> FALSE, counted |-> FALSE]
        ELSE Then([in.renderer EXCEPT !.tickCount = 0], LAMBDA r2 :
             Then(in.game.State, LAMBDA st :
                 IF st.GameOver
                 THEN [renderer |-> [r2 EXCEPT
                                        !.gamesPlayed = @ + 1,
                                        !.wins = Pair(IF st.Winner = 0 THEN @[0] + 1 ELSE @[0],
                                                      IF st.Winner = 1 THEN @[1] + 1 ELSE @[1]),
                                        !.ties = IF st.Winner \in {0, 1} THEN @ ELSE @ + 1,
                                        !.gameOverTicks = 0],
                       game |-> in.game, err |-> FALSE, reset |-> in.reset,
                       stepped |-> FALSE, counted |-> TRUE]
                 ELSE [renderer |-> r2,
                       game     |-> Step(st,
                                         Pair(ActionToDirection(st.Snakes[0].Direction, a0),
                                              ActionToDirection(st.Snakes[1].Direction, a1)),
                                         idxS),
                       err |-> FALSE, reset |-> in.reset, stepped |-> TRUE,
                       counted |-> FALSE])))

\* Update with the keys just pressed, the snakes taking the actions a0 and a1
\* and the rng returning idxR to the spawnFood of Reset and idxS to that of
\* Step: the renderer and the game after it, whether it returns ErrQuit, and
\* whether it called Reset, called Step and counted the game.
Update(r, g, keys, idxR, a0, a1, idxS) ==
    Then(handleInput(r, g, keys, idxR), LAMBDA in :
        IF in.err \/ in.renderer.paused
        THEN [renderer |-> in.renderer, game |-> in.game, err |-> in.err,
              reset |-> in.reset, stepped |-> FALSE, counted |-> FALSE]
        ELSE IF in.renderer.gameOverPause
        THEN Then([in.renderer EXCEPT !.gameOverTicks = @ + 1], LAMBDA r1 :
                 IF r1.gameOverTicks >= gameOverDelayTicks
                 THEN [renderer |-> [r1 EXCEPT !.gameOverPause = FALSE,
                                               !.gameOverTicks = 0],
                       game     |-> [in.game EXCEPT
                                        !.State = Reset(in.game.State.Width,
                                                        in.game.State.Height, idxR)],
                       err |-> FALSE, reset |-> TRUE, stepped |-> FALSE,
                       counted |-> FALSE]
                 ELSE [renderer |-> r1, game |-> in.game, err |-> FALSE,
                       reset |-> in.reset, stepped |-> FALSE, counted |-> FALSE])
        ELSE IF in.renderer.tickCount + 1 < in.renderer.ticksPerStep
        THEN [renderer |-> [in.renderer EXCEPT !.tickCount = @ + 1], game |-> in.game,
              err |-> FALSE, reset |-> in.reset, stepped |-> FALSE, counted |-> FALSE]
        ELSE Then([in.renderer EXCEPT !.tickCount = 0], LAMBDA r2 :
             Then(in.game.State, LAMBDA st :
                 IF st.GameOver
                 THEN [renderer |-> [r2 EXCEPT
                                        !.gamesPlayed = @ + 1,
                                        !.wins = Pair(IF st.Winner = 0 THEN @[0] + 1 ELSE @[0],
                                                      IF st.Winner = 1 THEN @[1] + 1 ELSE @[1]),
                                        !.ties = IF st.Winner \in {0, 1} THEN @ ELSE @ + 1,
                                        !.gameOverPause = TRUE,
                                        !.gameOverTicks = 0],
                       game |-> in.game, err |-> FALSE, reset |-> in.reset,
                       stepped |-> FALSE, counted |-> TRUE]
                 ELSE [renderer |-> r2,
                       game     |-> Step(st,
                                         Pair(ActionToDirection(st.Snakes[0].Direction, a0),
                                              ActionToDirection(st.Snakes[1].Direction, a1)),
                                         idxS),
                       err |-> FALSE, reset |-> in.reset, stepped |-> TRUE,
                       counted |-> FALSE])))

\* The boards the renderer shows.
RenderConfigs == {[BoardWidth |-> 5, BoardHeight |-> 1]}

\* The sets of keys just pressed in one tick.
KeySets == {{}, {"Space"}, {"Up"}, {"Down"}, {"R"}, {"Q"}, {"Space", "R"}, {"Up", "Down"}}

\* The actions the snakes take under the renderer: on a board of one row a
\* turn to either side leaves the board, and one of the two is followed.
RenderActions == {GoStraight, TurnLeftAction}

\* A renderer from NewRenderer on a game from NewGame.
InitRenderer ==
    /\ \E cfg \in RenderConfigs :
       \E idx \in SpawnDraws(ResetSnakes(cfg.BoardWidth, cfg.BoardHeight),
                             cfg.BoardWidth, cfg.BoardHeight) :
          game = [State |-> Reset(cfg.BoardWidth, cfg.BoardHeight, idx), result |-> NoResult]
    /\ renderer = NewRenderer
    /\ last = [held |-> FALSE]
    /\ lastOp = Op("NewRenderer", 0)
    /\ heap = [a \in Addr |-> <<>>]
    /\ rb = NewReplayBuffer(1)
    /\ batch = <<>>
    /\ indices = <<>>
    /\ added = <<>>
    /\ agent = NoAgent
    /\ policyNet = NoNet
    /\ targetNet = NoNet
    /\ decays = 0
    /\ disk = NoFile
    /\ caller = ZeroExperience
    /\ snake = NoSnake
    /\ twin = NoTwin
    /\ trains = 0

\* The Update of the tick ends the game-over pause with game.Reset.
PauseEnds(keys) ==
    /\ "Q" \notin keys
    /\ renderer.paused <=> "Space" \in keys
    /\ renderer.gameOverPause
    /\ renderer.gameOverTicks + 1 >= gameOverDelayTicks

\* The Update of the tick goes on to game.Step.
WillStep(in) ==
    /\ ~in.err
    /\ ~in.renderer.paused
    /\ ~in.renderer.gameOverPause
    /\ in.renderer.tickCount + 1 >= in.renderer.ticksPerStep
    /\ ~in.game.State.GameOver

\* r.Update() in a tick with the keys just pressed; ebiten calls Update until
\* it returns an error.  The rng draws and the actions are chosen where the
\* call uses them.
DoUpdate ==
    /\ lastOp.n = 0
    /\ renderer.gamesPlayed < MaxGames
    /\ \E keys \in KeySets :
       \E idxR \in (IF "R" \in keys \/ PauseEnds(keys)
                    THEN SpawnDraws(ResetSnakes(game.State.Width, game.State.Height),
                                    game.State.Width, game.State.Height)
                    ELSE {0}) :
       \E in \in {handleInput(renderer, game, keys, idxR)} :
       \E a0 \in (IF WillStep(in) THEN RenderActions ELSE {GoStraight}) :
       \E a1 \in (IF WillStep(in) THEN RenderActions ELSE {GoStraight}) :
       \E actions \in {Pair(ActionToDirection(in.game.State.Snakes[0].Direction, a0),
                            ActionToDirection(in.game.State.Snakes[1].Direction, a1))} :
       \E idxS \in (IF WillStep(in) /\ (WillEat(in.game.State, actions, 0)
                                        \/ WillEat(in.game.State, actions, 1))
                    THEN SpawnDraws(MovedSnakes(in.game.State, actions),
                                    in.game.State.Width, in.game.State.Height)
                    ELSE {0}) :
       \E u \in {Update(renderer, game, keys, idxR, a0, a1, idxS)} :
          /\ renderer' = u.renderer
          /\ game' = u.game
          /\ last' = [held |-> IF u.counted THEN TRUE
                               ELSE IF u.reset THEN FALSE ELSE last.held]
          /\ lastOp' = Op("Update", IF u.err THEN 1 ELSE 0)
    /\ UNCHANGED <<heap, rb, batch, indices, added, agent, policyNet, targetNet, decays,
                   disk, caller, snake, twin, trains>>

NextRenderer == DoUpdate

SpecRenderer == InitRenderer /\ [][NextRenderer]_vars

\* The states Reset leaves the renderer's game in.
ResetStates ==
    {Reset(game.State.Width, game.State.Height, idx) :
        idx \in SpawnDraws(ResetSnakes(game.State.Width, game.State.Height),
                           game.State.Width, game.State.Height)}

\* The renderer's counts add up.
CountsAddUp ==
    renderer.gamesPlayed = renderer.wins[0] + renderer.wins[1] + renderer.ties

\* An Update that counts a game counts a finished game that has not been
\* counted since its last Reset, once, for its winner, and leaves it as it is.
CountsOnce ==
    renderer'.gamesPlayed # renderer.gamesPlayed =>
        /\ renderer'.gamesPlayed = renderer.gamesPlayed + 1
        /\ ~last.held
        /\ game.State.GameOver
        /\ game' = game
        /\ renderer'.wins[0] = renderer.wins[0] + (IF game.State.Winner = 0 THEN 1 ELSE 0)
        /\ renderer'.wins[1] = renderer.wins[1] + (IF game.State.Winner = 1 THEN 1 ELSE 0)

\* An Update that leaves the renderer paused has left the tick counter, the
\* game-over pause and the counts as they were, and the game too unless the R
\* key reset it: it has not called Step.
PausedHolds ==
    (lastOp'.op = "Update" /\ renderer'.paused) =>
        /\ renderer'.tickCount = renderer.tickCount
        /\ renderer'.gameOverPause = renderer.gameOverPause
        /\ renderer'.gameOverTicks = renderer.gameOverTicks
        /\ renderer'.gamesPlayed = renderer.gamesPlayed
        /\ game' = game \/ (game'.State \in ResetStates /\ game'.result = game.result)

\* C40: in the renderer, under any sequence of Update ticks with the pause,
\* speed, reset and quit keys, gamesPlayed = wins[0] + wins[1] + ties in every
\* state, a finished game is counted at most once, and an Update that finds
\* the renderer paused after handling the keys advances neither the game nor
\* the tick counter nor the game-over pause.
C40_RendererCounts ==
    /\ []CountsAddUp
    /\ [][CountsOnce]_vars
    /\ [][PausedHolds]_vars

\* C40's case: the second game has been counted, one game won by snake 1 and
\* one tied, and the game-over pause has started.
C40_Witness ==
    /\ lastOp.op = "Update"
    /\ last.held
    /\ renderer.gamesPlayed = 2
    /\ renderer.wins[1] = 1
    /\ renderer.ties = 1
    /\ renderer.gameOverPause

\* An Update in the game-over pause that leaves the renderer paused, the R key
\* having reset the game that was counted.
C40_WitnessPaused ==
    /\ lastOp.op = "Update"
    /\ renderer.paused
    /\ renderer.gameOverPause
    /\ renderer.gameOverTicks > 0
    /\ renderer.gamesPlayed = 1
    /\ ~last.held
    /\ ~game.State.GameOver

-----------------------------------------------------------------------------
(* Two agents in one process.  A *rand.Rand is an object of the process:   *)
(* gens is the sequence of the generators made so far, a generator the     *)
(* seed it was made with and the number n of values drawn from it, and a   *)
(* component holds the index of its generator.  The values math/rand draws *)
(* are replaced by those of a small congruential generator: what is kept   *)
(* is that the value drawn is a function of the seed and of n alone.  The  *)
(* first agent is in agent, policyNet, targetNet, rb and heap; twin holds  *)
(* the generators, the seed and configuration both agents were made with,  *)
(* the indices of each agent's generators, and the second agent.           *)

\* One step of the generator, and the value drawn from a generator made with
\* seed after n earlier draws.
RngStep(x) == (5 * x + 3) % 16
RECURSIVE Source(_, _)
Source(seed, n) == IF n = 0 THEN RngStep(seed % 16) ELSE RngStep(Source(seed, n - 1))

\* rand.New as it would be if the process kept one generator for each seed.
NewRandPerSeed(gens, seed) ==
    IF \E i \in 1..Len(gens) : gens[i].seed = seed
    THEN [gens |-> gens, id |-> CHOOSE i \in 1..Len(gens) : gens[i].seed = seed]
    ELSE [gens |-> Append(gens, [seed |-> seed, n |-> 0]), id |-> Len(gens) + 1]

\* rand.New(rand.NewSource(seed)): a new generator of the process.
NewRand(gens, seed) ==
    [gens |-> Append(gens, [seed |-> seed, n |-> 0]), id |-> Len(gens) + 1]

\* The generators after k values were drawn from generator id.
Drawn(gens, id, k) == [gens EXCEPT ![id].n = @ + k]

\* rng.Int63(), rng.Float64() (in units of 10^-9), rng.Intn(n) and
\* rng.NormFloat64() * stddev, as the draw number k from now of generator g.
Int63(g, k) == Source(g.seed, g.n + k)
Float64(g, k) == Source(g.seed, g.n + k) * (EpsUnit \div 16)
Intn(g, k, n) == Source(g.seed, g.n + k) % n
NormFloat64(g, k) == (Source(g.seed, g.n + k) % 4) - 1

\* rng.Perm(n): m[i] = m[j]; m[j] = i for i from 0 to n - 1, j = rng.Intn(i + 1).
RECURSIVE PermFrom(_, _, _, _)
PermFrom(g, n, i, m) ==
    IF i = n THEN m
    ELSE LET j == Intn(g, i, i + 1)
         IN  PermFrom(g, n, i + 1,
                      Floats([k \in 1..n |-> IF k = j + 1 THEN i
                                             ELSE IF k = i + 1 THEN m[j + 1]
                                             ELSE m[k]], n))
RandPerm(g, n) == PermFrom(g, n, 0, Zeros(n))

\* xavierInit(fanIn, fanOut, rng), the draws starting at draw number k of g.
xavierInitDrawn(g, k, fanIn, fanOut) ==
    Floats([i \in 1..fanIn |->
               Floats([j \in 1..fanOut |-> NormFloat64(g, k + (i - 1) * fanOut + (j - 1))],
                      fanOut)], fanIn)

\* The weights NewQNetwork draws from its generator g, and their number.
WeightsDrawn(g, cfg) ==
    [W1 |-> xavierInitDrawn(g, 0, cfg.InputSize, cfg.HiddenSize1),
     W2 |-> xavierInitDrawn(g, cfg.InputSize * cfg.HiddenSize1,
                            cfg.HiddenSize1, cfg.HiddenSize2),
     W3 |-> xavierInitDrawn(g, cfg.InputSize * cfg.HiddenSize1
                               + cfg.HiddenSize1 * cfg.HiddenSize2,
                            cfg.HiddenSize2, cfg.OutputSize)]
WeightCount(cfg) ==
    cfg.InputSize * cfg.HiddenSize1 + cfg.HiddenSize1 * cfg.HiddenSize2
        + cfg.HiddenSize2 * cfg.OutputSize

\* NewDQNAgent(cfg, seed) in a process whose generators are gens: the agent's
\* generator, the policy network's made with its first Int63, the one of the
\* clone (NewQNetwork with seed 0, its weights overwritten by CopyFrom) and
\* the buffer's made with the second Int63.
NewDQNAgentSeeded(gens, cfg, seed) ==
    Then(NewRand(gens, seed), LAMBDA r :
    Then(NewRand(Drawn(r.gens, r.id, 1), Int63(r.gens[r.id], 0)), LAMBDA p :
    Then(NewRand(Drawn(p.gens, p.id, WeightCount(cfg)), 0), LAMBDA t :
    Then(NewRand(Drawn(Drawn(t.gens, t.id, WeightCount(cfg)), r.id, 1),
                 Int63(t.gens[r.id], 0)), LAMBDA b :
    Then(NewDQNAgent(cfg, WeightsDrawn(p.gens[p.id], cfg)), LAMBDA a :
        [gens  |-> b.gens,
         ids   |-> [agent |-> r.id, policy |-> p.id, target |-> t.id, buffer |-> b.id],
         world |-> [heap |-> a.heap, agent |-> a.fields, PolicyNet |-> a.PolicyNet,
                    TargetNet |-> a.TargetNet, rb |-> a.ReplayBuffer]])))))

\* a.SelectAction(state) of the agent w whose generator is id: Float64, and
\* Intn if it explores.
SelectActionDrawn(gens, id, w, state) ==
    Then(SelectAction(w.heap, w.agent, w.PolicyNet, state,
                      Float64(gens[id], 0), Intn(gens[id], 1, NumActions)), LAMBDA r :
        [gens  |-> Drawn(gens, id, r.agent.rng - w.agent.rng),
         world |-> [w EXCEPT !.agent = r.agent],
         ret   |-> r.action])

\* a.Remember(...) of the agent w with the state and next state of transition
\* t in fresh arrays of the caller, dropped when Remember returns.
RememberDrawn(gens, w, t) ==
    Then(NetAddrs(w.PolicyNet) \cup NetAddrs(w.TargetNet) \cup LiveAtAdd(w.rb), LAMBDA live :
    Then(NewAddr(live), LAMBDA c1 :
    Then(NewAddr(live \cup {c1}), LAMBDA c2 :
    Then(Remember([w.heap EXCEPT ![c1] = t.State, ![c2] = t.NextState],
                  w.rb, c1, t.Action, t.Reward, c2, t.Done, live \cup {c1, c2}), LAMBDA r :
        [gens  |-> gens,
         world |-> [w EXCEPT !.rb = r.rb,
                             !.heap = Collect(r.heap, NetAddrs(w.PolicyNet)
                                                 \cup NetAddrs(w.TargetNet)
                                                 \cup BufferAddrs(r.rb))],
         ret   |-> 0]))))

\* a.Train() of the agent w whose buffer's generator is id: Sample, if it is
\* reached, draws the permutation.
TrainDrawn(gens, id, w) ==
    Then(RandPerm(gens[id], w.rb.size), LAMBDA perm :
    Then(Train(w.heap, w.agent, w.PolicyNet, w.TargetNet, w.rb, perm), LAMBDA r :
        [gens  |-> IF r.trained THEN Drawn(gens, id, w.rb.size) ELSE gens,
         world |-> [w EXCEPT !.heap = r.heap, !.agent = r.agent],
         ret   |-> [loss |-> r.ret, log |-> r.log, trained |-> r.trained,
                    batch |-> IF r.trained
                              THEN SampleIndices(w.rb, r.agent.BatchSize, perm)
                              ELSE <<>>]]))

\* a.DecayEpsilon() of the agent w.
DecayEpsilonDrawn(gens, w) ==
    [gens |-> gens, world |-> [w EXCEPT !.agent = DecayEpsilon(w.agent)], ret |-> 0]

\* The seeds and the configurations the two agents are made with.
Seeds == {1, 2, 7}
TwinConfigs ==
    {[TrainingConfig(8) EXCEPT !.EpsilonStart = e] : e \in {Fixed(1, 1), Fixed(1, 2)}}

\* The first agent, in the variables of its own.
First ==
    [heap |-> heap, agent |-> agent, PolicyNet |-> policyNet, TargetNet |-> targetNet,
     rb |-> rb]

\* a1 := NewDQNAgent(cfg, seed); a2 := NewDQNAgent(cfg, seed).
InitTwin ==
    \E seed \in Seeds : \E cfg \in TwinConfigs :
    \E a1 \in {NewDQNAgentSeeded(<<>>, cfg, seed)} :
    \E a2 \in {NewDQNAgentSeeded(a1.gens, cfg, seed)} :
        /\ heap = a1.world.heap
        /\ agent = a1.world.agent
        /\ policyNet = a1.world.PolicyNet
        /\ targetNet = a1.world.TargetNet
        /\ rb = a1.world.rb
        /\ twin = [made |-> TRUE, seed |-> seed, gens |-> a2.gens,
                   ids |-> Pair(a1.ids, a2.ids), second |-> a2.world]
        /\ batch = <<>>
        /\ indices = <<>>
        /\ added = <<>>
        /\ decays = 0
        /\ last = [ret |-> Pair(0, 0)]
        /\ lastOp = Op("NewDQNAgent", seed)
        /\ disk = NoFile
        /\ caller = ZeroExperience
        /\ game = NoGame
        /\ snake = NoSnake
        /\ trains = 0
        /\ renderer = NoRenderer

twinOnly == <<batch, indices, disk, caller, game, snake, renderer>>

\* The state after a call made on the first agent, with result r1, and then
\* on the second, with result r2.
Both(r1, r2) ==
    /\ heap' = r1.world.heap
    /\ agent' = r1.world.agent
    /\ policyNet' = r1.world.PolicyNet
    /\ targetNet' = r1.world.TargetNet
    /\ rb' = r1.world.rb
    /\ twin' = [twin EXCEPT !.gens = r2.gens, !.second = r2.world]
    /\ last' = [ret |-> Pair(r1.ret, r2.ret)]

\* a1.SelectAction(state); a2.SelectAction(state).
DoTwinSelectAction ==
    /\ agent.rng < MaxDraws
    /\ \E state \in ProbeInputs :
       \E r1 \in {SelectActionDrawn(twin.gens, twin.ids[0].agent, First, state)} :
       \E r2 \in {SelectActionDrawn(r1.gens, twin.ids[1].agent, twin.second, state)} :
          Both(r1, r2)
    /\ lastOp' = Op("SelectAction", 0)
    /\ UNCHANGED <<added, decays, trains>>
    /\ UNCHANGED twinOnly

\* a1.Remember(...); a2.Remember(...) with the same arguments.
DoTwinRemember ==
    /\ Len(added) < MaxRemember
    /\ \E t \in Transitions :
       \E r1 \in {RememberDrawn(twin.gens, First, t)} :
       \E r2 \in {RememberDrawn(r1.gens, twin.second, t)} :
          /\ Both(r1, r2)
          /\ added' = Append(added, t)
    /\ lastOp' = Op("Remember", 0)
    /\ UNCHANGED <<decays, trains>>
    /\ UNCHANGED twinOnly

\* a1.Train(); a2.Train().
DoTwinTrain ==
    /\ agent.StepCount < MaxSteps
    /\ \E r1 \in {TrainDrawn(twin.gens, twin.ids[0].buffer, First)} :
       \E r2 \in {TrainDrawn(r1.gens, twin.ids[1].buffer, twin.second)} :
          /\ Bounded(r1.world.heap, NetAddrs(policyNet))
          /\ Bounded(r2.world.heap, NetAddrs(twin.second.PolicyNet))
          /\ Both(r1, r2)
    /\ lastOp' = Op("Train", 0)
    /\ trains' = trains + 1
    /\ UNCHANGED <<added, decays>>
    /\ UNCHANGED twinOnly

\* a1.DecayEpsilon(); a2.DecayEpsilon().
DoTwinDecayEpsilon ==
    /\ decays < MaxEpisodes
    /\ \E r1 \in {DecayEpsilonDrawn(twin.gens, First)} :
       \E r2 \in {DecayEpsilonDrawn(r1.gens, twin.second)} :
          Both(r1, r2)
    /\ decays' = decays + 1
    /\ lastOp' = Op("DecayEpsilon", 0)
    /\ UNCHANGED <<added, trains>>
    /\ UNCHANGED twinOnly

NextTwin ==
    \/ DoTwinSelectAction
    \/ DoTwinRemember
    \/ DoTwinTrain
    \/ DoTwinDecayEpsilon

SpecTwin == InitTwin /\ [][NextTwin]_vars

\* The generators of the two agents, and the two agents read by value.
GenIds(i) ==
    {twin.ids[i].agent, twin.ids[i].policy, twin.ids[i].target, twin.ids[i].buffer}
WorldValue(w) ==
    [agent |-> w.agent, PolicyNet |-> NetValue(w.heap, w.PolicyNet),
     TargetNet |-> NetValue(w.heap, w.TargetNet), rb |-> BufferValue(w.heap, w.rb)]

=============================================================================
